---- MODULE Spec2Model ----
(***************************************************************************)
(* The two-domain display server of qurancontrol (src/public/display.js,   *)
(* lines 810-1707): socket registry, controller lock, heartbeat monitor,   *)
(* command router and the clamped position state.                          *)
(*                                                                         *)
(* Every websocket handler and the monitor callback run to completion on   *)
(* the single Node.js event loop, so each is one action.                   *)
(***************************************************************************)
EXTENDS Integers, Sequences, FiniteSets, TLC

VARIABLES
  socketInfoByWs,     \* Map ws -> info, in insertion order: a sequence of
                      \* [id, role, lastHeartbeatAt, readyState]
  socketIdCounter,    \* next socket id
  activeControllerId, \* the lock: a socket id, or NULL
  currentState,       \* [mode, quran: [surahNumber, ayahNumber], dua: [duaId, lineIndex]]
  now,                \* Date.now()
  controlSince,       \* history, kept by SpecOrder alone: the registered control-role
                      \* sockets, in the order in which their hello set that role
  lastStatus,         \* history, kept by SpecStatus alone: for each registered socket
                      \* that was sent one, the lock status it was sent last
  display,            \* the display page (the client of display.js 1-264), run by
                      \* SpecDisplay alone: its socket, the messages on their way to
                      \* it, controllerConnected and the QR image and overlay
  control,            \* the control page (the client of control.js), run by
                      \* SpecControl alone: its socket, the messages on their way to
                      \* it, its lockState and its two timers
  sent,               \* the messages the last handler sent, in send order
  lastEvent           \* history: which handler ran last, for whom and on which
                      \* mutating message, the lock and the position before it,
                      \* and whether it released the lock

vars == <<socketInfoByWs, socketIdCounter, activeControllerId, currentState, now,
          controlSince, lastStatus, display, control, sent, lastEvent>>

----------------------------------------------------------------------------
(* Bounds of the model *)

MaxSockets == 3       \* connections accepted over a run of Spec
MaxTimedSockets == 2  \* connections accepted over a run of SpecTimed
MaxNow == 2           \* the clock of SpecTimed stops advancing here
MaxOrderSockets == 3  \* connections accepted over a run of SpecOrder
MaxRouterSockets == 2 \* connections accepted over a run of SpecRouter
MaxPositionSockets == 1 \* connections accepted over a run of SpecPosition
MaxStatusSockets == 2 \* connections accepted over a run of SpecStatus
MaxStatusNow == 2     \* the clock of SpecStatus stops advancing here
MaxDisplaySockets == 2 \* connections accepted over a run of SpecDisplay
MaxDisplayNow == 2    \* the clock of SpecDisplay stops advancing here
MaxInbox == 2         \* messages on their way to the display page at once
MaxIgnoredSockets == 2 \* connections accepted over a run of SpecIgnored
MaxIgnoredNow == 2     \* the clock of SpecIgnored stops advancing here
MaxControlSockets == 2 \* connections accepted over a run of SpecControl
MaxControlNow == 2     \* the clock of SpecControl stops advancing here
MaxControlInbox == 2   \* messages on their way to the control page at once
MaxLegacySockets == 2
MaxLegacyNow == 2

(* Program constants *)

\* Number(process.env.CONTROLLER_TIMEOUT_MS || 30000): set by the deployment;
\* the model runs the configuration with a timeout of 1 clock unit.
HEARTBEAT_INTERVAL_MS == 1
CONTROLLER_TIMEOUT_MS == 1

NULL == 0           \* activeControllerId = null (socket ids start at 1)

----------------------------------------------------------------------------
(* Values arriving in JSON messages.  Number(v) is either a number or NaN *)
(* (undefined, a non-numeric string, an object).                          *)

JsNum(n) == [nan |-> FALSE, val |-> n]
JsNaN == [nan |-> TRUE, val |-> 0]

\* Number(v) || 1 : NaN and 0 are falsy
NumberOr1(v) == IF v.nan \/ v.val = 0 THEN 1 ELSE v.val

Max2(a, b) == IF a >= b THEN a ELSE b
Min2(a, b) == IF a <= b THEN a ELSE b

SetMax(S) == CHOOSE x \in S : \A y \in S : y <= x

----------------------------------------------------------------------------
(* Content store: the data files loaded at start-up *)

\* metadata.surahs: number and ayahCount of each surah
metadataSurahs == <<[number |-> 1, ayahCount |-> 2], [number |-> 2, ayahCount |-> 0]>>

\* ayahDataBySurah: the ayah numbers the (sparse) dataset has text for
ayahDataBySurah == [s \in {1, 2} |-> {1}]

\* duaDataById: line count of each loaded dua
duaDataById == [d \in {"iftitah", "kumayl"} |-> IF d = "iftitah" THEN 2 ELSE 1]

totalSurahs == IF Len(metadataSurahs) = 0 THEN 114 ELSE Len(metadataSurahs)

getMaxAyahForSurah(surahNumber) ==
  LET metas == {i \in 1..Len(metadataSurahs) : metadataSurahs[i].number = surahNumber}
      fromMeta == IF metas = {} THEN 0 ELSE metadataSurahs[SetMax(metas)].ayahCount
  IN IF fromMeta > 0 THEN fromMeta
     ELSE IF surahNumber \notin DOMAIN ayahDataBySurah \/ ayahDataBySurah[surahNumber] = {}
          THEN 1
          ELSE SetMax(ayahDataBySurah[surahNumber])

\* mutant: the ayah number is not held below the surah's ayah count
clampQuranStateNoUpperBound(nextSurah, nextAyah) ==
  LET surahNumber == Max2(1, Min2(totalSurahs, NumberOr1(nextSurah)))
      ayahNumber == Max2(1, NumberOr1(nextAyah))
  IN [surahNumber |-> surahNumber, ayahNumber |-> ayahNumber]

clampQuranState(nextSurah, nextAyah) ==
  LET surahNumber == Max2(1, Min2(totalSurahs, NumberOr1(nextSurah)))
      maxAyah == getMaxAyahForSurah(surahNumber)
      ayahNumber == Max2(1, Min2(maxAyah, NumberOr1(nextAyah)))
  IN [surahNumber |-> surahNumber, ayahNumber |-> ayahNumber]

getDefaultDuaId ==
  IF "iftitah" \in DOMAIN duaDataById THEN "iftitah"
  ELSE IF DOMAIN duaDataById = {} THEN ""
       ELSE CHOOSE d \in DOMAIN duaDataById : TRUE

\* String(id).trim().toLowerCase() on the ids the model sends
TrimLower(s) == IF s = " Kumayl " THEN "kumayl" ELSE s

\* candidateDua: [duaId: string, lineIndex: JSON value]
clampDuaState(candidateDua) ==
  LET defaultId == getDefaultDuaId
      requestedId == TrimLower(IF candidateDua.duaId = "" THEN defaultId ELSE candidateDua.duaId)
      duaId == IF requestedId \in DOMAIN duaDataById THEN requestedId
               ELSE IF defaultId \in DOMAIN duaDataById THEN defaultId ELSE ""
  IN IF duaId = "" THEN [duaId |-> "", lineIndex |-> 1]
     ELSE LET maxLine == IF duaDataById[duaId] = 0 THEN 1 ELSE duaDataById[duaId]
          IN [duaId |-> duaId,
              lineIndex |-> Max2(1, Min2(maxLine, NumberOr1(candidateDua.lineIndex)))]

clampMode(mode) == IF mode = "dua" THEN "dua" ELSE "quran"

\* candidateState: [mode, quran: [surahNumber, ayahNumber], dua: [duaId, lineIndex]]
\* with numbers in quran and dua (every caller passes {...currentState, ...})
clampAppState(candidateState) ==
  LET quran == clampQuranState(JsNum(candidateState.quran.surahNumber),
                               JsNum(candidateState.quran.ayahNumber))
      dua == clampDuaState([duaId |-> candidateState.dua.duaId,
                            lineIndex |-> JsNum(candidateState.dua.lineIndex)])
      mode == IF clampMode(candidateState.mode) = "dua" /\ dua.duaId = ""
              THEN "quran" ELSE clampMode(candidateState.mode)
  IN [mode |-> mode, quran |-> quran, dua |-> dua]

\* mutant: a step past the last ayah of the last surah goes round to the first
getSteppedQuranStateWraps(quranState, direction) ==
  LET step == IF direction = "prev" THEN -1 ELSE 1
      maxAyah == getMaxAyahForSurah(quranState.surahNumber)
      a1 == quranState.ayahNumber + step
      over == a1 > maxAyah
      s2 == IF over
            THEN (IF quranState.surahNumber < totalSurahs THEN quranState.surahNumber + 1 ELSE 1)
            ELSE quranState.surahNumber
      a2 == IF over THEN 1 ELSE a1
      under == a2 < 1
      s3 == IF under /\ s2 > 1 THEN s2 - 1 ELSE s2
      a3 == IF under THEN (IF s2 > 1 THEN getMaxAyahForSurah(s2 - 1) ELSE 1) ELSE a2
  IN clampQuranState(JsNum(s3), JsNum(a3))

getSteppedQuranState(quranState, direction) ==
  LET step == IF direction = "prev" THEN -1 ELSE 1
      maxAyah == getMaxAyahForSurah(quranState.surahNumber)
      a1 == quranState.ayahNumber + step
      over == a1 > maxAyah
      s2 == IF over /\ quranState.surahNumber < totalSurahs
            THEN quranState.surahNumber + 1 ELSE quranState.surahNumber
      a2 == IF over
            THEN (IF quranState.surahNumber < totalSurahs THEN 1 ELSE maxAyah)
            ELSE a1
      under == a2 < 1
      s3 == IF under /\ s2 > 1 THEN s2 - 1 ELSE s2
      a3 == IF under THEN (IF s2 > 1 THEN getMaxAyahForSurah(s2 - 1) ELSE 1) ELSE a2
  IN clampQuranState(JsNum(s3), JsNum(a3))

\* mutant: a step past the last line goes round to the first
getSteppedDuaStateWraps(duaState, direction) ==
  LET step == IF direction = "prev" THEN -1 ELSE 1
      clamped == clampDuaState([duaId |-> duaState.duaId, lineIndex |-> JsNum(duaState.lineIndex)])
      totalLines == IF clamped.duaId \in DOMAIN duaDataById /\ duaDataById[clamped.duaId] # 0
                    THEN duaDataById[clamped.duaId] ELSE 1
  IN [duaId |-> clamped.duaId,
      lineIndex |-> IF clamped.lineIndex + step > totalLines THEN 1
                    ELSE Max2(1, clamped.lineIndex + step)]

getSteppedDuaState(duaState, direction) ==
  LET step == IF direction = "prev" THEN -1 ELSE 1
      clamped == clampDuaState([duaId |-> duaState.duaId, lineIndex |-> JsNum(duaState.lineIndex)])
      totalLines == IF clamped.duaId \in DOMAIN duaDataById /\ duaDataById[clamped.duaId] # 0
                    THEN duaDataById[clamped.duaId] ELSE 1
  IN [duaId |-> clamped.duaId,
      lineIndex |-> Max2(1, Min2(totalLines, clamped.lineIndex + step))]

statesEqual(a, b) ==
  /\ a.mode = b.mode
  /\ a.quran.surahNumber = b.quran.surahNumber
  /\ a.quran.ayahNumber = b.quran.ayahNumber
  /\ a.dua.duaId = b.dua.duaId
  /\ a.dua.lineIndex = b.dua.lineIndex

getAyahPayload(surahNumber, ayahNumber) ==
  [surahNumber |-> surahNumber,
   ayahNumber |-> ayahNumber,
   ayahCount |-> getMaxAyahForSurah(surahNumber),
   missing |-> ~(surahNumber \in DOMAIN ayahDataBySurah
                 /\ ayahNumber \in ayahDataBySurah[surahNumber])]

getQuranContentPayload(state) ==
  LET ayah == getAyahPayload(state.quran.surahNumber, state.quran.ayahNumber)
  IN [mode |-> "quran",
      quran |-> [surahNumber |-> ayah.surahNumber, ayahNumber |-> ayah.ayahNumber,
                 ayahCount |-> ayah.ayahCount],
      dua |-> [duaId |-> "", lineIndex |-> 0, totalLines |-> 0],
      missing |-> ayah.missing]

getDuaContentPayload(state) ==
  IF state.dua.duaId \notin DOMAIN duaDataById
  THEN [mode |-> "dua",
        quran |-> [surahNumber |-> 0, ayahNumber |-> 0, ayahCount |-> 0],
        dua |-> [duaId |-> "", lineIndex |-> 1, totalLines |-> 1],
        missing |-> TRUE]
  ELSE LET maxLine == IF duaDataById[state.dua.duaId] = 0 THEN 1 ELSE duaDataById[state.dua.duaId]
           lineIndex == Max2(1, Min2(maxLine, state.dua.lineIndex))
       IN [mode |-> "dua",
           quran |-> [surahNumber |-> 0, ayahNumber |-> 0, ayahCount |-> 0],
           dua |-> [duaId |-> state.dua.duaId, lineIndex |-> lineIndex, totalLines |-> maxLine],
           missing |-> FALSE]

getCurrentContentPayload(state) ==
  IF state.mode = "dua" THEN getDuaContentPayload(state) ELSE getQuranContentPayload(state)

----------------------------------------------------------------------------
(* Socket registry, messages and the controller lock *)

SetMin(S) == CHOOSE x \in S : \A y \in S : x <= y

\* the registry entry of a socket id: its position in iteration order, 0 if absent
getSocketInfoById(reg, socketId) ==
  LET at == {i \in 1..Len(reg) : reg[i].id = socketId}
  IN IF at = {} THEN 0 ELSE SetMin(at)

RegisteredIds(reg) == {reg[i].id : i \in 1..Len(reg)}

isControllerConnected(active) == active # NULL

\* ws.send happens only on an OPEN socket
sendMessage(e, payload) == IF e.readyState = "OPEN" THEN <<payload>> ELSE <<>>

\* mutant: the flags do not depend on the role
getControllerFlagsForAnyRole(info, active) ==
  LET isActiveController == info.id = active
      lockedByAnother == active # NULL /\ ~isActiveController
  IN [isActiveController |-> isActiveController, lockedByAnother |-> lockedByAnother]

getControllerFlags(info, active) ==
  LET isControl == info.role = "control"
      isActiveController == isControl /\ info.id = active
      lockedByAnother == isControl /\ active # NULL /\ ~isActiveController
  IN [isActiveController |-> isActiveController, lockedByAnother |-> lockedByAnother]

\* the data URL start() got from QRCode.toDataURL before the server listens
\* ('' when the generation failed: the model runs the start-up that succeeded)
qrCodeDataUrl == "data:image/png"

getBootstrapPayload(info, active, state) ==
  LET flags == getControllerFlags(info, active)
  IN [to |-> info.id, type |-> "bootstrap",
      state |-> state,
      content |-> getCurrentContentPayload(state),
      connection |-> [controllerConnected |-> isControllerConnected(active),
                      qrCodeDataUrl |-> qrCodeDataUrl,
                      isActiveController |-> flags.isActiveController,
                      lockedByAnother |-> flags.lockedByAnother]]

\* where a message carries controllerConnected and the controller flags: a
\* bootstrap under connection, a control_lock or controller_status at top level
ConnectionOf(message) == IF message.type = "bootstrap" THEN message.connection ELSE message

sendBootstrap(e, active, state) == sendMessage(e, getBootstrapPayload(e, active, state))

RECURSIVE Flatten(_)
Flatten(ss) == IF Len(ss) = 0 THEN <<>> ELSE Head(ss) \o Flatten(Tail(ss))

\* mutant: only the display clients are told
broadcastControllerStatusDisplaysOnly(reg, active) ==
  Flatten([i \in 1..Len(reg) |->
    IF reg[i].role = "display"
    THEN sendMessage(reg[i], [to |-> reg[i].id, type |-> "controller_status",
                              controllerConnected |-> isControllerConnected(active)])
    ELSE <<>>])

\* mutant: the state update goes to the display clients alone
broadcastStateUpdateDisplaysOnly(reg, state) ==
  Flatten([i \in 1..Len(reg) |->
    IF reg[i].role = "display"
    THEN sendMessage(reg[i], [to |-> reg[i].id, type |-> "state_update",
                              state |-> state,
                              content |-> getCurrentContentPayload(state)])
    ELSE <<>>])

\* broadcast(payload, role): every OPEN socket (of that role, when one is given),
\* in registry order
broadcastStateUpdate(reg, state) ==
  Flatten([i \in 1..Len(reg) |->
    sendMessage(reg[i], [to |-> reg[i].id, type |-> "state_update",
                         state |-> state,
                         content |-> getCurrentContentPayload(state)])])

\* mutant: of the control clients, the holder alone is told
broadcastControllerStatusHolderOnly(reg, active) ==
  Flatten([i \in 1..Len(reg) |->
    IF reg[i].role = "display"
    THEN sendMessage(reg[i], [to |-> reg[i].id, type |-> "controller_status",
                              controllerConnected |-> isControllerConnected(active)])
    ELSE <<>>])
  \o
  Flatten([i \in 1..Len(reg) |->
    IF reg[i].role = "control" /\ reg[i].id = active
    THEN sendMessage(reg[i],
           [to |-> reg[i].id, type |-> "control_lock",
            controllerConnected |-> isControllerConnected(active),
            isActiveController |-> getControllerFlags(reg[i], active).isActiveController,
            lockedByAnother |-> getControllerFlags(reg[i], active).lockedByAnother])
    ELSE <<>>])

broadcastControllerStatus(reg, active) ==
  Flatten([i \in 1..Len(reg) |->
    IF reg[i].role = "display"
    THEN sendMessage(reg[i], [to |-> reg[i].id, type |-> "controller_status",
                              controllerConnected |-> isControllerConnected(active)])
    ELSE <<>>])
  \o
  Flatten([i \in 1..Len(reg) |->
    IF reg[i].role = "control"
    THEN sendMessage(reg[i],
           [to |-> reg[i].id, type |-> "control_lock",
            controllerConnected |-> isControllerConnected(active),
            isActiveController |-> getControllerFlags(reg[i], active).isActiveController,
            lockedByAnother |-> getControllerFlags(reg[i], active).lockedByAnother])
    ELSE <<>>])

\* mutant: the scan does not look at ws.readyState
PromotionCandidatesAnyState(reg, excludedControllerId) ==
  {i \in 1..Len(reg) : reg[i].role = "control" /\ reg[i].id # excludedControllerId}

\* the sockets the promotion scan of releaseActiveController does not skip
PromotionCandidates(reg, excludedControllerId) ==
  {i \in 1..Len(reg) : /\ reg[i].role = "control"
                       /\ reg[i].readyState = "OPEN"
                       /\ reg[i].id # excludedControllerId}

\* the scan takes the first candidate in Map iteration order and breaks
\* (mutant: it takes the last)
PromotedIndexLast(reg, excludedControllerId) ==
  IF PromotionCandidates(reg, excludedControllerId) = {} THEN 0
  ELSE SetMax(PromotionCandidates(reg, excludedControllerId))

PromotedIndex(reg, excludedControllerId) ==
  IF PromotionCandidates(reg, excludedControllerId) = {} THEN 0
  ELSE SetMin(PromotionCandidates(reg, excludedControllerId))

\* mutant: the promoted socket keeps the timestamp it had while it waited
releaseKeepsStaleTimestamp(reg, active, excludedControllerId, t) ==
  IF active = NULL
  THEN [reg |-> reg, active |-> active, out |-> <<>>, released |-> FALSE]
  ELSE LET p == PromotedIndex(reg, excludedControllerId)
           active2 == IF p = 0 THEN NULL ELSE reg[p].id
       IN [reg |-> reg, active |-> active2,
           out |-> broadcastControllerStatus(reg, active2), released |-> TRUE]

\* mutant: the holder is cleared only when a successor is found
releaseKeepsHolder(reg, active, excludedControllerId, t) ==
  IF active = NULL
  THEN [reg |-> reg, active |-> active, out |-> <<>>, released |-> FALSE]
  ELSE LET p == PromotedIndex(reg, excludedControllerId)
           reg2 == IF p = 0 THEN reg ELSE [reg EXCEPT ![p].lastHeartbeatAt = t]
           active2 == IF p = 0 THEN active ELSE reg[p].id
       IN [reg |-> reg2, active |-> active2,
           out |-> broadcastControllerStatus(reg2, active2), released |-> TRUE]

\* result: the registry, the lock and the messages sent
releaseActiveController(reg, active, excludedControllerId, t) ==
  IF active = NULL
  THEN [reg |-> reg, active |-> active, out |-> <<>>, released |-> FALSE]
  ELSE LET p == PromotedIndex(reg, excludedControllerId)
           reg2 == IF p = 0 THEN reg ELSE [reg EXCEPT ![p].lastHeartbeatAt = t]
           active2 == IF p = 0 THEN NULL ELSE reg[p].id
       IN [reg |-> reg2, active |-> active2,
           out |-> broadcastControllerStatus(reg2, active2), released |-> TRUE]

\* mutant: the last controller to declare its role takes the lock
claimControllerLastWins(reg, active, i, t) ==
  IF reg[i].role # "control"
  THEN [reg |-> reg, active |-> active, out |-> <<>>]
  ELSE LET reg2 == [reg EXCEPT ![i].lastHeartbeatAt = t]
       IN [reg |-> reg2, active |-> reg[i].id,
           out |-> broadcastControllerStatus(reg2, reg[i].id)]

\* i: the caller's registry entry, whose role was just set
claimController(reg, active, i, t) ==
  IF reg[i].role # "control"
  THEN [reg |-> reg, active |-> active, out |-> <<>>]
  ELSE LET reg2 == [reg EXCEPT ![i].lastHeartbeatAt = t]
           active2 == IF active = NULL THEN reg[i].id ELSE active
       IN [reg |-> reg2, active |-> active2,
           out |-> broadcastControllerStatus(reg2, active2)]

\* mutant: any control client may update the state
rejectIfNotController(info, active) ==
  IF info.role # "control"
  THEN [rejected |-> TRUE,
        out |-> sendMessage(info, [to |-> info.id, type |-> "error",
                                   message |-> "Only control clients can update state."])]
  ELSE [rejected |-> FALSE, out |-> <<>>]

\* mutant: a waiting controller is told of the error and not of the lock
rejectWithoutLockStatus(info, active) ==
  IF info.role # "control"
  THEN [rejected |-> TRUE,
        out |-> sendMessage(info, [to |-> info.id, type |-> "error",
                                   message |-> "Only control clients can update state."])]
  ELSE IF info.id # active
  THEN [rejected |-> TRUE,
        out |-> sendMessage(info, [to |-> info.id, type |-> "error",
                                   message |-> "Controller lock active on another device."])]
  ELSE [rejected |-> FALSE, out |-> <<>>]

\* mutant: a client that is no controller is turned away without an answer
rejectNonControlSilently(info, active) ==
  IF info.role # "control"
  THEN [rejected |-> TRUE, out |-> <<>>]
  ELSE IF info.id # active
  THEN [rejected |-> TRUE,
        out |-> sendMessage(info, [to |-> info.id, type |-> "error",
                                   message |-> "Controller lock active on another device."])
                \o sendMessage(info,
                     [to |-> info.id, type |-> "control_lock",
                      controllerConnected |-> isControllerConnected(active),
                      isActiveController |-> getControllerFlags(info, active).isActiveController,
                      lockedByAnother |-> getControllerFlags(info, active).lockedByAnother])]
  ELSE [rejected |-> FALSE, out |-> <<>>]

\* result: whether the message is rejected, and the messages sent
rejectIfNotActiveController(info, active) ==
  IF info.role # "control"
  THEN [rejected |-> TRUE,
        out |-> sendMessage(info, [to |-> info.id, type |-> "error",
                                   message |-> "Only control clients can update state."])]
  ELSE IF info.id # active
  THEN [rejected |-> TRUE,
        out |-> sendMessage(info, [to |-> info.id, type |-> "error",
                                   message |-> "Controller lock active on another device."])
                \o sendMessage(info,
                     [to |-> info.id, type |-> "control_lock",
                      controllerConnected |-> isControllerConnected(active),
                      isActiveController |-> getControllerFlags(info, active).isActiveController,
                      lockedByAnother |-> getControllerFlags(info, active).lockedByAnother])]
  ELSE [rejected |-> FALSE, out |-> <<>>]

----------------------------------------------------------------------------
(* Position state *)

\* mutant: the state is broadcast also when it did not change
setCurrentStateAlwaysBroadcasts(cur, nextState, reg) ==
  [state |-> clampAppState(nextState),
   out |-> broadcastStateUpdate(reg, clampAppState(nextState))]

\* mutant: the broadcast runs before the new state is stored
setCurrentStateBroadcastsFirst(cur, nextState, reg) ==
  LET clamped == clampAppState(nextState)
  IN IF statesEqual(clamped, cur)
     THEN [state |-> cur, out |-> <<>>]
     ELSE [state |-> clamped, out |-> broadcastStateUpdate(reg, cur)]

\* result: the new currentState and the messages sent
setCurrentState(cur, nextState, reg) ==
  LET clamped == clampAppState(nextState)
  IN IF statesEqual(clamped, cur)
     THEN [state |-> cur, out |-> <<>>]
     ELSE [state |-> clamped, out |-> broadcastStateUpdate(reg, clamped)]

\* mutant: the domain that is entered starts again at its first position
setModeResetsPosition(cur, nextMode, reg) ==
  setCurrentState(cur,
    IF clampMode(nextMode) = "dua"
    THEN [cur EXCEPT !.mode = "dua", !.dua.lineIndex = 1]
    ELSE [cur EXCEPT !.mode = "quran", !.quran = [surahNumber |-> 1, ayahNumber |-> 1]],
    reg)

setMode(cur, nextMode, reg) ==
  setCurrentState(cur, [cur EXCEPT !.mode = clampMode(nextMode)], reg)

\* mutant: a scripture position also selects the scripture domain
setQuranSelectsQuran(cur, nextSurah, nextAyah, reg) ==
  setCurrentState(cur, [cur EXCEPT !.mode = "quran",
                                   !.quran = clampQuranState(nextSurah, nextAyah)], reg)

setQuran(cur, nextSurah, nextAyah, reg) ==
  setCurrentState(cur, [cur EXCEPT !.quran = clampQuranState(nextSurah, nextAyah)], reg)

setDua(cur, nextDuaId, nextLineIndex, reg) ==
  setCurrentState(cur,
    [cur EXCEPT !.dua = clampDuaState([duaId |-> nextDuaId, lineIndex |-> nextLineIndex])],
    reg)

stepActive(cur, direction, reg) ==
  IF direction # "next" /\ direction # "prev"
  THEN [state |-> cur, out |-> <<>>]
  ELSE IF cur.mode = "dua"
  THEN setCurrentState(cur, [cur EXCEPT !.dua = getSteppedDuaState(cur.dua, direction)], reg)
  ELSE setCurrentState(cur, [cur EXCEPT !.quran = getSteppedQuranState(cur.quran, direction)], reg)

----------------------------------------------------------------------------
(* Inbound messages the model sends *)

JsValues == {JsNaN, JsNum(-1), JsNum(0), JsNum(2), JsNum(9)}
DuaIdValues == {"", "iftitah", "kumayl", " Kumayl ", "unknown"}
HelloRoles == {"control", "display", "other"}
DeclaredRoles == {"control", "display"}

Message(type, mode, surahNumber, ayahNumber, duaId, lineIndex, direction) ==
  [type |-> type, mode |-> mode, surahNumber |-> surahNumber, ayahNumber |-> ayahNumber,
   duaId |-> duaId, lineIndex |-> lineIndex, direction |-> direction]

\* a bad value is sent in one field at a time, beside a good one
QuranPairs ==
  {<<JsNaN, JsNaN>>} \cup {<<JsNum(2), a>> : a \in JsValues} \cup {<<s, JsNum(2)>> : s \in JsValues}
DuaPairs ==
  {<<"iftitah", l>> : l \in JsValues} \cup {<<d, JsNum(2)>> : d \in DuaIdValues}

\* the legacy spellings of the types are sent with one payload each
MutatingMessages ==
  {Message("setMode", m, JsNaN, JsNaN, "", JsNaN, "") : m \in {"quran", "dua", "other"}}
  \cup {Message("setQuran", "", q[1], q[2], "", JsNaN, "") : q \in QuranPairs}
  \cup {Message("setDua", "", JsNaN, JsNaN, d[1], d[2], "") : d \in DuaPairs}
  \cup {Message(t, "", JsNaN, JsNaN, "", JsNaN, "") : t \in {"next", "prev"}}
  \cup {Message("step", "", JsNaN, JsNaN, "", JsNaN, dir) :
          dir \in {"next", "prev", "previous", ""}}
  \cup {Message("set_mode", "dua", JsNaN, JsNaN, "", JsNaN, ""),
        Message("set_quran", "", JsNum(2), JsNum(2), "", JsNaN, ""),
        Message("set_state", "", JsNum(9), JsNaN, "", JsNaN, ""),
        Message("set_dua", "", JsNaN, JsNaN, "kumayl", JsNum(2), "")}

\* the messages of the router runs: steps, and a set-mode that changes nothing
RouterMessages ==
  {m \in MutatingMessages : m.type \in {"next", "prev"} \/ (m.type = "setMode" /\ m.mode = "quran")}

\* the message of the lock-protocol runs: accepted, and the position stays
ModeMessages == {m \in MutatingMessages : m.type = "setMode" /\ m.mode = "quran"}

\* mutant: the direction of a step is handed to stepActive as it came
ApplyMutationKeepsDirection(cur, message, id, reg) ==
  IF message.type \in {"setMode", "set_mode"}
  THEN setMode(cur, message.mode, reg)
  ELSE IF message.type \in {"setQuran", "set_quran", "set_state"}
  THEN setQuran(cur, message.surahNumber, message.ayahNumber, reg)
  ELSE IF message.type \in {"setDua", "set_dua"}
  THEN setDua(cur, message.duaId, message.lineIndex, reg)
  ELSE IF message.type \in {"next", "prev"}
  THEN stepActive(cur, message.type, reg)
  ELSE IF message.type = "step"
  THEN stepActive(cur, message.direction, reg)
  ELSE [state |-> cur, out |-> <<>>]

\* the dispatch of an accepted mutating message (display.js 1598-1621)
ApplyMutation(cur, message, id, reg) ==
  IF message.type \in {"setMode", "set_mode"}
  THEN setMode(cur, message.mode, reg)
  ELSE IF message.type \in {"setQuran", "set_quran", "set_state"}
  THEN setQuran(cur, message.surahNumber, message.ayahNumber, reg)
  ELSE IF message.type \in {"setDua", "set_dua"}
  THEN setDua(cur, message.duaId, message.lineIndex, reg)
  ELSE IF message.type \in {"next", "prev"}
  THEN stepActive(cur, message.type, reg)
  ELSE IF message.type = "step"
  THEN stepActive(cur, IF message.direction = "prev" THEN "prev" ELSE "next", reg)
  ELSE [state |-> cur, out |-> <<>>]

----------------------------------------------------------------------------
(* The display page: display.js 1-264 *)

\* the page as loaded, before init() has run: no socket (socketId NULL), hello
\* not yet sent on the socket, no message on its way, controllerConnected false
\* (line 19), no src on the QR image; the overlay's class comes from
\* display.html and every handler below sets it again
DisplayPageLoaded ==
  [pc |-> "init", socketId |-> NULL, helloSent |-> FALSE, inbox |-> <<>>,
   controllerConnected |-> FALSE, qrImageSrc |-> "", qrOverlayHidden |-> TRUE]

setConnectionState(d, isConnected) ==
  [d EXCEPT !.controllerConnected = isConnected,
            !.qrOverlayHidden = ~(~isConnected /\ d.qrImageSrc # "")]

applyBootstrap(d, payload) ==
  LET withImage == IF payload.connection.qrCodeDataUrl # ""
                   THEN [d EXCEPT !.qrImageSrc = payload.connection.qrCodeDataUrl]
                   ELSE d
  IN setConnectionState(withImage, payload.connection.controllerConnected)

\* the content a bootstrap or a state_update renders is not part of the page
\* state the model keeps
\* mutant: the page ignores controller_status messages
handleSocketMessageBootstrapOnly(d, message) ==
  IF message.type = "bootstrap" THEN applyBootstrap(d, message) ELSE d

handleSocketMessage(d, message) ==
  IF message.type = "bootstrap" THEN applyBootstrap(d, message)
  ELSE IF message.type = "controller_status"
  THEN setConnectionState(d, message.controllerConnected)
  ELSE d

----------------------------------------------------------------------------
(* The control page: control.js *)

\* the page as its script starts: no socket, no timer, lockState all false.
\* reconnectTimer and heartbeatTimer are the two timer handles (TRUE: set),
\* reconnectTimers and heartbeatTimers count the timers that are pending,
\* heartbeatAt is when the heartbeat interval started or fired last, and
\* toldBy is the socket whose message made isActiveController true
ControlPageLoaded ==
  [pc |-> "init", socketId |-> NULL, inbox |-> <<>>,
   isActiveController |-> FALSE, toldBy |-> NULL,
   reconnectTimer |-> FALSE, reconnectTimers |-> 0,
   heartbeatTimer |-> FALSE, heartbeatTimers |-> 0, heartbeatAt |-> 0]

\* lockState.isActiveController && ws && ws.readyState === WebSocket.OPEN
controlsEnabled(c) == c.isActiveController /\ c.pc = "open"

scheduleReconnect(c) ==
  IF c.reconnectTimer THEN c
  ELSE [c EXCEPT !.reconnectTimer = TRUE, !.reconnectTimers = @ + 1]

startHeartbeat(c, t) ==
  LET cleared == IF c.heartbeatTimer THEN [c EXCEPT !.heartbeatTimers = @ - 1] ELSE c
  IN [cleared EXCEPT !.heartbeatTimer = TRUE, !.heartbeatTimers = @ + 1, !.heartbeatAt = t]

stopHeartbeat(c) ==
  IF ~c.heartbeatTimer THEN c
  ELSE [c EXCEPT !.heartbeatTimer = FALSE, !.heartbeatTimers = @ - 1]

\* handleSocketMessage of control.js: a bootstrap and a control_lock replace
\* lockState; from is the socket the message came over (NULL: over HTTP)
controlHandleSocketMessage(c, message, from) ==
  IF message.type \in {"bootstrap", "control_lock"}
  THEN [c EXCEPT !.isActiveController = ConnectionOf(message).isActiveController,
                 !.toldBy = IF ConnectionOf(message).isActiveController THEN from ELSE NULL]
  ELSE c

\* mutant: the close listener leaves lockState as it is
controlSocketClosedKeepsLockState(c) ==
  scheduleReconnect(stopHeartbeat([c EXCEPT !.pc = "closed", !.socketId = NULL]))

\* mutant: the close listener leaves the heartbeat interval running
controlSocketClosedKeepsHeartbeat(c) ==
  scheduleReconnect([c EXCEPT !.pc = "closed", !.socketId = NULL,
                              !.isActiveController = FALSE, !.toldBy = NULL])

\* the 'close' listener of connectSocket
controlSocketClosed(c) ==
  scheduleReconnect(stopHeartbeat([c EXCEPT !.pc = "closed", !.socketId = NULL,
                                            !.isActiveController = FALSE,
                                            !.toldBy = NULL]))

----------------------------------------------------------------------------
(* The state machine *)

\* the handler ran on no mutating message
NoMessage == Message("", "", JsNaN, JsNaN, "", JsNaN, "")

\* released: the handler ran releaseActiveController past its first guard
\* (the "[controller] Released controller" log line); arg: the mutating
\* message a command handler ran on
Event(op, id, released) ==
  [op |-> op, id |-> id, released |-> released, arg |-> NoMessage,
   prevActive |-> activeControllerId, prevState |-> currentState]

InitialState ==
  clampAppState([mode |-> "quran",
                 quran |-> [surahNumber |-> 1, ayahNumber |-> 1],
                 dua |-> [duaId |-> getDefaultDuaId, lineIndex |-> 1]])

Init ==
  /\ socketInfoByWs = <<>>
  /\ socketIdCounter = 1
  /\ activeControllerId = NULL
  /\ currentState = InitialState
  /\ now = 0
  /\ controlSince = <<>>
  /\ lastStatus = <<>>
  /\ display = DisplayPageLoaded
  /\ control = ControlPageLoaded
  /\ sent = <<>>
  /\ lastEvent = Event("init", 0, FALSE)

\* Date.now() moves on between two callbacks
AdvanceClock(maxNow) ==
  /\ now < maxNow
  /\ now' = now + 1
  /\ sent' = <<>>
  /\ lastEvent' = Event("clock", 0, FALSE)
  /\ UNCHANGED <<socketInfoByWs, socketIdCounter, activeControllerId, currentState, controlSince, lastStatus, display, control>>

\* Date.now() moves on by more than the controller timeout between two callbacks
AdvanceClockPastTimeout(maxNow) ==
  /\ now + CONTROLLER_TIMEOUT_MS + 1 <= maxNow
  /\ now' = now + CONTROLLER_TIMEOUT_MS + 1
  /\ sent' = <<>>
  /\ lastEvent' = Event("clock", 0, FALSE)
  /\ UNCHANGED <<socketInfoByWs, socketIdCounter, activeControllerId, currentState, controlSince, lastStatus, display, control>>

\* mutant: a session is numbered by the count of registered sessions
ConnectNumberedByRegistrySize(maxSockets) ==
  /\ socketIdCounter <= maxSockets
  /\ LET socketInfo == [id |-> Len(socketInfoByWs) + 1, role |-> "unknown",
                        lastHeartbeatAt |-> now, readyState |-> "OPEN"]
     IN /\ socketInfoByWs' = Append(socketInfoByWs, socketInfo)
        /\ sent' = sendMessage(socketInfo, [to |-> socketInfo.id, type |-> "connected",
                                            socketId |-> socketInfo.id])
        /\ lastEvent' = Event("connection", socketInfo.id, FALSE)
  /\ socketIdCounter' = socketIdCounter + 1
  /\ UNCHANGED <<activeControllerId, currentState, now, controlSince, lastStatus, display, control>>

\* wss.on('connection')
Connect(maxSockets) ==
  /\ socketIdCounter <= maxSockets
  /\ LET socketInfo == [id |-> socketIdCounter, role |-> "unknown",
                        lastHeartbeatAt |-> now, readyState |-> "OPEN"]
     IN /\ socketInfoByWs' = Append(socketInfoByWs, socketInfo)
        /\ sent' = sendMessage(socketInfo, [to |-> socketInfo.id, type |-> "connected",
                                            socketId |-> socketInfo.id])
        /\ lastEvent' = Event("connection", socketInfo.id, FALSE)
  /\ socketIdCounter' = socketIdCounter + 1
  /\ UNCHANGED <<activeControllerId, currentState, now, controlSince, lastStatus, display, control>>

\* the ws library moves a socket to CLOSING (close frame received, socket
\* error) before it emits 'close'; no handler of the server runs
SocketClosing(i) ==
  /\ socketInfoByWs[i].readyState = "OPEN"
  /\ socketInfoByWs' = [socketInfoByWs EXCEPT ![i].readyState = "CLOSING"]
  /\ sent' = <<>>
  /\ lastEvent' = Event("closing", socketInfoByWs[i].id, FALSE)
  /\ UNCHANGED <<socketIdCounter, activeControllerId, currentState, now, controlSince, lastStatus, display, control>>

\* mutant: a socket that sent a malformed message is deregistered
InvalidJsonDropsSocket(i) ==
  /\ socketInfoByWs[i].readyState = "OPEN"
  /\ sent' = sendMessage(socketInfoByWs[i],
               [to |-> socketInfoByWs[i].id, type |-> "error", message |-> "Invalid JSON message"])
  /\ socketInfoByWs' = SubSeq(socketInfoByWs, 1, i - 1)
                         \o SubSeq(socketInfoByWs, i + 1, Len(socketInfoByWs))
  /\ lastEvent' = Event("invalid_json", socketInfoByWs[i].id, FALSE)
  /\ UNCHANGED <<socketIdCounter, activeControllerId, currentState, now, controlSince, lastStatus, display, control>>

\* ws.on('message'): a buffer JSON.parse rejects
InvalidJson(i) ==
  /\ socketInfoByWs[i].readyState = "OPEN"
  /\ sent' = sendMessage(socketInfoByWs[i],
               [to |-> socketInfoByWs[i].id, type |-> "error", message |-> "Invalid JSON message"])
  /\ lastEvent' = Event("invalid_json", socketInfoByWs[i].id, FALSE)
  /\ UNCHANGED <<socketInfoByWs, socketIdCounter, activeControllerId, currentState, now, controlSince, lastStatus, display, control>>

\* the role a hello message sets
RequestedRole(role) == IF role = "control" THEN "control" ELSE "display"

\* mutant: the bootstrap is sent before the claim is attempted
HelloAnswersBeforeClaim(i, role) ==
  /\ socketInfoByWs[i].readyState = "OPEN"
  /\ LET reg1 == [socketInfoByWs EXCEPT ![i].role = RequestedRole(role)]
         claim == IF RequestedRole(role) = "control"
                  THEN claimController(reg1, activeControllerId, i, now)
                  ELSE [reg |-> reg1, active |-> activeControllerId, out |-> <<>>]
     IN /\ socketInfoByWs' = claim.reg
        /\ activeControllerId' = claim.active
        /\ sent' = sendBootstrap(reg1[i], activeControllerId, currentState) \o claim.out
  /\ lastEvent' = Event("hello", socketInfoByWs[i].id, FALSE)
  /\ UNCHANGED <<socketIdCounter, currentState, now>>

\* ws.on('message'): type 'hello'
Hello(i, role) ==
  /\ socketInfoByWs[i].readyState = "OPEN"
  /\ LET reg1 == [socketInfoByWs EXCEPT ![i].role = RequestedRole(role)]
         claim == IF RequestedRole(role) = "control"
                  THEN claimController(reg1, activeControllerId, i, now)
                  ELSE [reg |-> reg1, active |-> activeControllerId, out |-> <<>>]
     IN /\ socketInfoByWs' = claim.reg
        /\ activeControllerId' = claim.active
        /\ sent' = claim.out \o sendBootstrap(claim.reg[i], claim.active, currentState)
  /\ lastEvent' = Event("hello", socketInfoByWs[i].id, FALSE)
  /\ UNCHANGED <<socketIdCounter, currentState, now>>

\* mutant: the heartbeat of any control client refreshes its timestamp
HeartbeatAcceptedFromAnyController(info, active) == info.role = "control"

\* the heartbeat branch refreshes the sender's timestamp only for the holder
HeartbeatAccepted(info, active) == info.role = "control" /\ info.id = active

\* ws.on('message'): type 'heartbeat'
Heartbeat(i) ==
  /\ socketInfoByWs[i].readyState = "OPEN"
  /\ socketInfoByWs' =
       IF HeartbeatAccepted(socketInfoByWs[i], activeControllerId)
       THEN [socketInfoByWs EXCEPT ![i].lastHeartbeatAt = now]
       ELSE socketInfoByWs
  /\ sent' = <<>>
  /\ lastEvent' = Event("heartbeat", socketInfoByWs[i].id, FALSE)
  /\ UNCHANGED <<socketIdCounter, activeControllerId, currentState, now, controlSince, lastStatus, display>>

\* mutant: a request_state counts as a sign of life of its sender
RequestStateRefreshesLiveness(i) ==
  /\ socketInfoByWs[i].readyState = "OPEN"
  /\ socketInfoByWs' = [socketInfoByWs EXCEPT ![i].lastHeartbeatAt = now]
  /\ sent' = sendBootstrap(socketInfoByWs[i], activeControllerId, currentState)
  /\ lastEvent' = Event("request_state", socketInfoByWs[i].id, FALSE)
  /\ UNCHANGED <<socketIdCounter, activeControllerId, currentState, now, controlSince>>

\* ws.on('message'): type 'request_state'
RequestState(i) ==
  /\ socketInfoByWs[i].readyState = "OPEN"
  /\ sent' = sendBootstrap(socketInfoByWs[i], activeControllerId, currentState)
  /\ lastEvent' = Event("request_state", socketInfoByWs[i].id, FALSE)
  /\ UNCHANGED <<socketInfoByWs, socketIdCounter, activeControllerId, currentState, now, controlSince>>

\* ws.on('message'): a mutating type
Command(i, message) ==
  /\ socketInfoByWs[i].readyState = "OPEN"
  /\ LET info == socketInfoByWs[i]
         check == rejectIfNotActiveController(info, activeControllerId)
     IN IF check.rejected
        THEN /\ sent' = check.out
             /\ UNCHANGED <<socketInfoByWs, currentState>>
        ELSE LET reg1 == [socketInfoByWs EXCEPT ![i].lastHeartbeatAt = now]
                 res == ApplyMutation(currentState, message, info.id, reg1)
             IN /\ socketInfoByWs' = reg1
                /\ currentState' = res.state
                /\ sent' = res.out
  /\ lastEvent' = [Event("command", socketInfoByWs[i].id, FALSE) EXCEPT !.arg = message]
  /\ UNCHANGED <<socketIdCounter, activeControllerId, now, controlSince>>

\* ws.on('message'): a JSON value other than null whose type property is none
\* of the types a branch handles (an object of another type or without one, a
\* number, a string, an array, a boolean: message.type is undefined)
UnknownType(i) ==
  /\ socketInfoByWs[i].readyState = "OPEN"
  /\ sent' = <<>>
  /\ lastEvent' = Event("unknown_type", socketInfoByWs[i].id, FALSE)
  /\ UNCHANGED <<socketInfoByWs, socketIdCounter, activeControllerId, currentState, now, controlSince, lastStatus, display, control>>

\* ws.on('message'): the JSON text null. JSON.parse returns null, and the first
\* test, message.type === 'hello', throws a TypeError; the listener has no
\* try around it and the process installs no uncaughtException handler, so
\* the server process ends, and its registry, lock and connections with it
NullMessage(i) ==
  /\ socketInfoByWs[i].readyState = "OPEN"
  /\ socketInfoByWs' = <<>>
  /\ activeControllerId' = NULL
  /\ sent' = <<>>
  /\ lastEvent' = Event("uncaught_exception", socketInfoByWs[i].id, FALSE)
  /\ UNCHANGED <<socketIdCounter, currentState, now, controlSince, lastStatus, display, control>>

\* the server process has not ended
ServerRunning == lastEvent.op # "uncaught_exception"

\* socketInfoByWs.delete(ws)
DeleteEntry(reg, i) == SubSeq(reg, 1, i - 1) \o SubSeq(reg, i + 1, Len(reg))

\* mutant: every disconnect releases the lock
CloseAlwaysReleases(i) ==
  /\ LET info == socketInfoByWs[i]
         reg1 == DeleteEntry(socketInfoByWs, i)
         rel == releaseActiveController(reg1, activeControllerId, info.id, now)
     IN /\ socketInfoByWs' = rel.reg
        /\ activeControllerId' = rel.active
        /\ sent' = rel.out
        /\ lastEvent' = Event("close", info.id, rel.released)
  /\ UNCHANGED <<socketIdCounter, currentState, now>>

\* ws.on('close')
Close(i) ==
  /\ LET info == socketInfoByWs[i]
         reg1 == DeleteEntry(socketInfoByWs, i)
         rel == IF info.id = activeControllerId
                THEN releaseActiveController(reg1, activeControllerId, info.id, now)
                ELSE [reg |-> reg1, active |-> activeControllerId, out |-> <<>>,
                      released |-> FALSE]
     IN /\ socketInfoByWs' = rel.reg
        /\ activeControllerId' = rel.active
        /\ sent' = rel.out
        /\ lastEvent' = Event("close", info.id, rel.released)
  /\ UNCHANGED <<socketIdCounter, currentState, now>>

\* mutant: released already when the timeout is reached
TimedOutAtLimit(elapsed) == elapsed >= CONTROLLER_TIMEOUT_MS

\* elapsed > CONTROLLER_TIMEOUT_MS
TimedOut(elapsed) == elapsed > CONTROLLER_TIMEOUT_MS

\* mutant: the timed-out socket is not excluded
TimeoutExcludesNobody(info) == NULL

\* the id the monitor excludes from promotion on a timeout
TimeoutExcluded(info) == info.id

\* the setInterval callback heartbeatMonitor
MonitorTick ==
  /\ LET idx == getSocketInfoById(socketInfoByWs, activeControllerId)
         same == [reg |-> socketInfoByWs, active |-> activeControllerId, out |-> <<>>,
                  released |-> FALSE]
         rel == IF activeControllerId = NULL THEN same
                ELSE IF idx = 0
                THEN releaseActiveController(socketInfoByWs, activeControllerId, NULL, now)
                ELSE IF TimedOut(now - socketInfoByWs[idx].lastHeartbeatAt)
                THEN releaseActiveController(socketInfoByWs, activeControllerId,
                                             TimeoutExcluded(socketInfoByWs[idx]), now)
                ELSE same
     IN /\ socketInfoByWs' = rel.reg
        /\ activeControllerId' = rel.active
        /\ sent' = rel.out
        /\ lastEvent' = Event("monitor", activeControllerId, rel.released)
  /\ UNCHANGED <<socketIdCounter, currentState, now, controlSince>>

\* mutant: the role of the query is not looked at
ApiBootstrapAsDisplay(role) ==
  /\ sent' = <<getBootstrapPayload([id |-> -1, role |-> "display"],
                                   activeControllerId, currentState)>>
  /\ lastEvent' = [Event("api_bootstrap", -1, FALSE)
                     EXCEPT !.arg = [type |-> "api_bootstrap", role |-> RequestedRole(role)]]
  /\ UNCHANGED <<socketInfoByWs, socketIdCounter, activeControllerId, currentState, now,
                 controlSince, lastStatus, display, control>>

\* app.get('/api/bootstrap'): the payload of the synthetic socket
\* { id: -1, role }, role control when the query says so and display otherwise;
\* sent holds the response
ApiBootstrap(role) ==
  /\ sent' = <<getBootstrapPayload([id |-> -1, role |-> RequestedRole(role)],
                                   activeControllerId, currentState)>>
  /\ lastEvent' = [Event("api_bootstrap", -1, FALSE)
                     EXCEPT !.arg = [type |-> "api_bootstrap", role |-> RequestedRole(role)]]
  /\ UNCHANGED <<socketInfoByWs, socketIdCounter, activeControllerId, currentState, now,
                 controlSince, lastStatus, display, control>>

\* init() of the display page: GET /api/bootstrap?role=display, answered for
\* the synthetic socket { id: -1, role }, and applyBootstrap of the answer
\* when the response is ok; connectSocket follows in either case
DisplayFetchBootstrap(ok) ==
  /\ display.pc = "init"
  /\ display' =
       [(IF ok
         THEN applyBootstrap(display,
                getBootstrapPayload([id |-> -1, role |-> "display"],
                                    activeControllerId, currentState))
         ELSE display) EXCEPT !.pc = "closed"]
  /\ sent' = <<>>
  /\ lastEvent' = Event("api_bootstrap", 0, FALSE)
  /\ UNCHANGED <<socketInfoByWs, socketIdCounter, activeControllerId, currentState, now,
                 controlSince, lastStatus, control>>

\* the 'open' event of the page's socket, after connectSocket (at start and
\* 1500 ms after a close): the socket is one the server registered and has heard
\* nothing from; the page's hello is on its way
DisplaySocketOpen(i) ==
  /\ display.pc = "closed"
  /\ socketInfoByWs[i].role = "unknown"
  /\ socketInfoByWs[i].readyState = "OPEN"
  /\ display' = [display EXCEPT !.pc = "open", !.socketId = socketInfoByWs[i].id,
                                !.helloSent = FALSE]
  /\ UNCHANGED <<socketInfoByWs, socketIdCounter, activeControllerId, currentState, now,
                 controlSince, lastStatus, control, sent, lastEvent>>

\* the messages of a handler that are on their way to the page's socket;
\* of the others ('connected', state_update) the page keeps nothing
DeliveredToDisplay(out) ==
  LET forPage(m) == m.to = display.socketId /\ m.type \in {"bootstrap", "controller_status"}
  IN IF display.pc = "open" THEN SelectSeq(out, forPage) ELSE <<>>

\* a server handler ran: what it sent to the page's socket joins the messages
\* on their way to the page
DeliverToDisplay ==
  /\ display' = [display EXCEPT !.inbox = @ \o DeliveredToDisplay(sent')]
  /\ Len(display'.inbox) <= MaxInbox
  /\ UNCHANGED <<controlSince, lastStatus, control>>

\* the server receives the page's { type: 'hello', role: 'display' }
DisplayHello(i) ==
  /\ display.pc = "open"
  /\ ~display.helloSent
  /\ socketInfoByWs[i].id = display.socketId
  /\ Hello(i, "display")
  /\ display' = [display EXCEPT !.helloSent = TRUE, !.inbox = @ \o DeliveredToDisplay(sent')]
  /\ Len(display'.inbox) <= MaxInbox
  /\ UNCHANGED <<controlSince, lastStatus, control>>

\* the 'message' event of the page's socket: the messages arrive in send order
DisplayReceive ==
  /\ display.inbox # <<>>
  /\ display' = [handleSocketMessage(display, Head(display.inbox))
                   EXCEPT !.inbox = Tail(display.inbox)]
  /\ UNCHANGED <<socketInfoByWs, socketIdCounter, activeControllerId, currentState, now,
                 controlSince, lastStatus, control, sent, lastEvent>>

\* the 'close' event of the page's socket, after the messages sent before the
\* connection went down: setConnectionState(false) and scheduleReconnect
DisplayClose ==
  /\ display.pc = "open"
  /\ display.inbox = <<>>
  /\ \A i \in 1..Len(socketInfoByWs) :
       socketInfoByWs[i].id = display.socketId => socketInfoByWs[i].readyState # "OPEN"
  /\ display' = [setConnectionState(display, FALSE)
                   EXCEPT !.pc = "closed", !.socketId = NULL, !.helloSent = FALSE]
  /\ UNCHANGED <<socketInfoByWs, socketIdCounter, activeControllerId, currentState, now,
                 controlSince, lastStatus, control, sent, lastEvent>>

\* init() of the control page: GET /api/bootstrap?role=control, the answer
\* handled like a socket message when the response is ok, then connectSocket
ControlFetchBootstrap(ok) ==
  /\ control.pc = "init"
  /\ control' =
       [(IF ok
         THEN controlHandleSocketMessage(control,
                getBootstrapPayload([id |-> -1, role |-> "control"],
                                    activeControllerId, currentState), NULL)
         ELSE control) EXCEPT !.pc = "connecting"]
  /\ sent' = <<>>
  /\ lastEvent' = [Event("api_bootstrap", -1, FALSE)
                     EXCEPT !.arg = [type |-> "api_bootstrap", role |-> "control"]]
  /\ UNCHANGED <<socketInfoByWs, socketIdCounter, activeControllerId, currentState, now,
                 controlSince, lastStatus, display>>

\* the messages of a handler that are on their way to the control page over
\* the socket of this id and that the page's lockState depends on
DeliveredToControl(out, id) ==
  LET forPage(m) == m.to = id /\ m.type \in {"bootstrap", "control_lock"}
  IN IF id = NULL THEN <<>> ELSE SelectSeq(out, forPage)

\* a server handler ran: what it sent to the page's socket joins the messages
\* on their way to the page
DeliverToControl ==
  /\ control' = [control EXCEPT !.inbox = @ \o DeliveredToControl(sent', control.socketId)]
  /\ Len(control'.inbox) <= MaxControlInbox
  /\ UNCHANGED <<controlSince, lastStatus, display>>

\* the 'open' listener of connectSocket: the socket is one the server
\* registered and has heard nothing from; the page sends
\* { type: 'hello', role: 'control' }, which the server handles, and starts
\* the heartbeat interval
ControlSocketOpen(i) ==
  /\ control.pc = "connecting"
  /\ socketInfoByWs[i].role = "unknown"
  /\ Hello(i, "control")
  /\ control' = [startHeartbeat(control, now)
                   EXCEPT !.pc = "open", !.socketId = socketInfoByWs[i].id,
                          !.inbox = DeliveredToControl(sent', socketInfoByWs[i].id)]
  /\ UNCHANGED <<controlSince, lastStatus, display>>

\* the connection attempt fails: the 'error' listener calls ws.close() and the
\* 'close' listener runs
ControlConnectFails ==
  /\ control.pc = "connecting"
  /\ control' = controlSocketClosed(control)
  /\ UNCHANGED <<socketInfoByWs, socketIdCounter, activeControllerId, currentState, now,
                 controlSince, lastStatus, display, sent, lastEvent>>

\* a pending reconnect timeout fires: reconnectTimer = null; connectSocket()
ControlReconnectTimer ==
  /\ control.reconnectTimers > 0
  /\ control' = [control EXCEPT !.reconnectTimer = FALSE, !.reconnectTimers = @ - 1,
                                !.pc = "connecting"]
  /\ UNCHANGED <<socketInfoByWs, socketIdCounter, activeControllerId, currentState, now,
                 controlSince, lastStatus, display, sent, lastEvent>>

\* the 'message' listener of the page's socket: the messages arrive in send order
ControlReceive ==
  /\ control.inbox # <<>>
  /\ control' = [controlHandleSocketMessage(control, Head(control.inbox), control.socketId)
                   EXCEPT !.inbox = Tail(control.inbox)]
  /\ UNCHANGED <<socketInfoByWs, socketIdCounter, activeControllerId, currentState, now,
                 controlSince, lastStatus, display, sent, lastEvent>>

\* mutant: the interval is twice HEARTBEAT_INTERVAL_MS
HeartbeatDueEverySecondInterval ==
  control.heartbeatTimers > 0 /\ now - control.heartbeatAt >= 2 * HEARTBEAT_INTERVAL_MS

\* the heartbeat interval of the page has run out
HeartbeatDue ==
  control.heartbeatTimers > 0 /\ now - control.heartbeatAt >= HEARTBEAT_INTERVAL_MS

\* the heartbeat interval fires while the page's socket is open on both sides:
\* the page sends { type: 'heartbeat' } and the server handles it
ControlHeartbeat(i) ==
  /\ HeartbeatDue
  /\ control.pc = "open"
  /\ socketInfoByWs[i].id = control.socketId
  /\ Heartbeat(i)
  /\ control' = [control EXCEPT !.heartbeatAt = now]

\* the heartbeat interval fires and nothing reaches the server: the page's
\* socket is not open, or the server's end of it is gone or closing
ControlHeartbeatLost ==
  /\ HeartbeatDue
  /\ \/ control.pc # "open"
     \/ \A i \in 1..Len(socketInfoByWs) :
          socketInfoByWs[i].id = control.socketId => socketInfoByWs[i].readyState # "OPEN"
  /\ control' = [control EXCEPT !.heartbeatAt = now]
  /\ UNCHANGED <<socketInfoByWs, socketIdCounter, activeControllerId, currentState, now,
                 controlSince, lastStatus, display, sent, lastEvent>>

\* a button of the page: send(payload) passes the message on when
\* controlsEnabled(), and the server handles it
ControlCommand(i, message) ==
  /\ controlsEnabled(control)
  /\ socketInfoByWs[i].id = control.socketId
  /\ Command(i, message)
  /\ control' = [control EXCEPT !.inbox = @ \o DeliveredToControl(sent', control.socketId)]
  /\ Len(control'.inbox) <= MaxControlInbox
  /\ UNCHANGED <<lastStatus, display>>

\* the 'close' listener of the page's socket, after the messages sent before
\* the connection went down
ControlClose ==
  /\ control.pc = "open"
  /\ control.inbox = <<>>
  /\ \A i \in 1..Len(socketInfoByWs) :
       socketInfoByWs[i].id = control.socketId => socketInfoByWs[i].readyState # "OPEN"
  /\ control' = controlSocketClosed(control)
  /\ UNCHANGED <<socketInfoByWs, socketIdCounter, activeControllerId, currentState, now,
                 controlSince, lastStatus, display, sent, lastEvent>>

----------------------------------------------------------------------------
(* The scripture-only server: display.js 265-809.  Its isControllerConnected, *)
(* getSocketInfoById, sendMessage, broadcast, getControllerFlags,             *)
(* broadcastControllerStatus, releaseActiveController, claimController and    *)
(* getMaxAyahForSurah have the text of the two-domain server's, and the       *)
(* operators above stand for both.  Its state is a record L of its registry,  *)
(* counter, lock and position; a handler gives the state it leaves and the    *)
(* messages it sends.                                                         *)

clampState(nextSurah, nextAyah) ==
  LET surahNumber == Max2(1, Min2(totalSurahs, NumberOr1(nextSurah)))
      maxAyah == getMaxAyahForSurah(surahNumber)
      ayahNumber == Max2(1, Min2(maxAyah, NumberOr1(nextAyah)))
  IN [surahNumber |-> surahNumber, ayahNumber |-> ayahNumber]

\* the state the scripture-only server starts in
legacyInit ==
  [socketInfoByWs |-> <<>>, socketIdCounter |-> 1, activeControllerId |-> NULL,
   currentState |-> clampState(JsNum(1), JsNum(1))]

\* getBootstrapPayload of the scripture-only server: state is the position
legacyGetBootstrapPayload(info, active, state) ==
  LET flags == getControllerFlags(info, active)
  IN [to |-> info.id, type |-> "bootstrap",
      state |-> state,
      connection |-> [controllerConnected |-> isControllerConnected(active),
                      qrCodeDataUrl |-> qrCodeDataUrl,
                      isActiveController |-> flags.isActiveController,
                      lockedByAnother |-> flags.lockedByAnother]]

\* broadcastStateUpdate of the scripture-only server
legacyBroadcastStateUpdate(reg, state) ==
  Flatten([i \in 1..Len(reg) |->
    sendMessage(reg[i], [to |-> reg[i].id, type |-> "state_update", state |-> state])])

\* mutant: the state is broadcast also when the position did not change
setStateAlwaysBroadcasts(cur, nextSurah, nextAyah, reg) ==
  [state |-> clampState(nextSurah, nextAyah),
   out |-> legacyBroadcastStateUpdate(reg, clampState(nextSurah, nextAyah))]

\* result: the new position and the messages sent
setState(cur, nextSurah, nextAyah, reg) ==
  LET nextState == clampState(nextSurah, nextAyah)
  IN IF nextState.surahNumber = cur.surahNumber /\ nextState.ayahNumber = cur.ayahNumber
     THEN [state |-> cur, out |-> <<>>]
     ELSE [state |-> nextState, out |-> legacyBroadcastStateUpdate(reg, nextState)]

\* wss.on('connection') at time t
legacyConnection(L, t) ==
  LET socketInfo == [id |-> L.socketIdCounter, role |-> "unknown",
                     lastHeartbeatAt |-> t, readyState |-> "OPEN"]
  IN [state |-> [L EXCEPT !.socketInfoByWs = Append(@, socketInfo),
                          !.socketIdCounter = @ + 1],
      out |-> sendMessage(socketInfo, [to |-> socketInfo.id, type |-> "connected",
                                       socketId |-> socketInfo.id])]

\* ws.on('message'): type 'hello', from the socket at registry position i
legacyHello(L, i, role, t) ==
  LET reg1 == [L.socketInfoByWs EXCEPT ![i].role = RequestedRole(role)]
      claim == IF RequestedRole(role) = "control"
               THEN claimController(reg1, L.activeControllerId, i, t)
               ELSE [reg |-> reg1, active |-> L.activeControllerId, out |-> <<>>]
  IN [state |-> [L EXCEPT !.socketInfoByWs = claim.reg, !.activeControllerId = claim.active],
      out |-> claim.out
              \o sendMessage(claim.reg[i],
                    legacyGetBootstrapPayload(claim.reg[i], claim.active, L.currentState))]

\* ws.on('message'): type 'heartbeat'
legacyHeartbeat(L, i, t) ==
  LET socketInfo == L.socketInfoByWs[i]
  IN [state |-> IF socketInfo.role = "control" /\ socketInfo.id = L.activeControllerId
                THEN [L EXCEPT !.socketInfoByWs[i].lastHeartbeatAt = t]
                ELSE L,
      out |-> <<>>]

\* ws.on('message'): type 'set_state'
legacySetStateMessage(L, i, message, t) ==
  LET socketInfo == L.socketInfoByWs[i]
  IN IF socketInfo.role # "control"
     THEN [state |-> L,
           out |-> sendMessage(socketInfo,
                     [to |-> socketInfo.id, type |-> "error",
                      message |-> "Only control clients can update state."])]
     ELSE IF socketInfo.id # L.activeControllerId
     THEN [state |-> L,
           out |-> sendMessage(socketInfo,
                     [to |-> socketInfo.id, type |-> "error",
                      message |-> "Controller lock active on another device."])
                   \o sendMessage(socketInfo,
                        [to |-> socketInfo.id, type |-> "control_lock",
                         controllerConnected |-> isControllerConnected(L.activeControllerId),
                         isActiveController |->
                           getControllerFlags(socketInfo, L.activeControllerId).isActiveController,
                         lockedByAnother |->
                           getControllerFlags(socketInfo, L.activeControllerId).lockedByAnother])]
     ELSE LET reg1 == [L.socketInfoByWs EXCEPT ![i].lastHeartbeatAt = t]
              res == setState(L.currentState, message.surahNumber, message.ayahNumber, reg1)
          IN [state |-> [L EXCEPT !.socketInfoByWs = reg1, !.currentState = res.state],
              out |-> res.out]

\* ws.on('close')
legacyClose(L, i, t) ==
  LET info == L.socketInfoByWs[i]
      reg1 == DeleteEntry(L.socketInfoByWs, i)
      rel == IF info.id = L.activeControllerId
             THEN releaseActiveController(reg1, L.activeControllerId, info.id, t)
             ELSE [reg |-> reg1, active |-> L.activeControllerId, out |-> <<>>,
                   released |-> FALSE]
  IN [state |-> [L EXCEPT !.socketInfoByWs = rel.reg, !.activeControllerId = rel.active],
      out |-> rel.out]

\* the setInterval callback heartbeatMonitor
legacyMonitor(L, t) ==
  LET idx == getSocketInfoById(L.socketInfoByWs, L.activeControllerId)
      same == [reg |-> L.socketInfoByWs, active |-> L.activeControllerId, out |-> <<>>,
               released |-> FALSE]
      rel == IF L.activeControllerId = NULL THEN same
             ELSE IF idx = 0
             THEN releaseActiveController(L.socketInfoByWs, L.activeControllerId, NULL, t)
             ELSE IF t - L.socketInfoByWs[idx].lastHeartbeatAt > CONTROLLER_TIMEOUT_MS
             THEN releaseActiveController(L.socketInfoByWs, L.activeControllerId,
                                          L.socketInfoByWs[idx].id, t)
             ELSE same
  IN [state |-> [L EXCEPT !.socketInfoByWs = rel.reg, !.activeControllerId = rel.active],
      out |-> rel.out]

----------------------------------------------------------------------------
(* History variables and specifications *)

\* the step's effect on the history variable controlSince
TrackControlSince ==
  LET isControl(id) == \E j \in 1..Len(socketInfoByWs') :
                          socketInfoByWs'[j].id = id /\ socketInfoByWs'[j].role = "control"
      still == SelectSeq(controlSince, isControl)
      new == {id \in RegisteredIds(socketInfoByWs') :
                isControl(id) /\ \A k \in 1..Len(controlSince) : controlSince[k] # id}
  IN controlSince' = IF new = {} THEN still ELSE Append(still, CHOOSE id \in new : TRUE)

\* the flags of a message that tells a socket of the lock
StatusOf(message) ==
  [controllerConnected |-> ConnectionOf(message).controllerConnected,
   isActiveController |-> ConnectionOf(message).isActiveController,
   lockedByAnother |-> ConnectionOf(message).lockedByAnother]

\* the step's effect on the history variable lastStatus: for each socket of the
\* registry, connected the controllerConnected flag of the last
\* controller_status, control_lock or bootstrap it was sent, and lock the flags
\* of the last control_lock or bootstrap it was sent (told: it was sent one)
TrackStatus ==
  LET lockAt(id) == {k \in 1..Len(sent') :
                       sent'[k].to = id /\ sent'[k].type \in {"control_lock", "bootstrap"}}
      flagAt(id) == {k \in 1..Len(sent') :
                       sent'[k].to = id
                         /\ sent'[k].type \in {"controller_status", "control_lock", "bootstrap"}}
      before(id) == IF id \in DOMAIN lastStatus THEN lastStatus[id]
                    ELSE [connected |-> FALSE, told |-> FALSE,
                          lock |-> [controllerConnected |-> FALSE,
                                    isActiveController |-> FALSE,
                                    lockedByAnother |-> FALSE]]
      after(id) ==
        [connected |-> IF flagAt(id) = {} THEN before(id).connected
                       ELSE ConnectionOf(sent'[SetMax(flagAt(id))]).controllerConnected,
         told |-> before(id).told \/ lockAt(id) # {},
         lock |-> IF lockAt(id) = {} THEN before(id).lock
                  ELSE StatusOf(sent'[SetMax(lockAt(id))])]
      ids == {id \in RegisteredIds(socketInfoByWs') :
                id \in DOMAIN lastStatus \/ flagAt(id) # {}}
  IN lastStatus' = [id \in ids |-> after(id)]

\* the specification keeps neither history / does not keep lastStatus
NoHistory == UNCHANGED <<controlSince, lastStatus, display, control>>
NoStatus == UNCHANGED <<lastStatus, display, control>>
NoClient == UNCHANGED control

(* The lock protocol among MaxSockets connections, at one instant of the clock; *)
(* the accepted commands leave the position where it is                         *)
Next ==
  \/ Connect(MaxSockets)
  \/ MonitorTick /\ NoStatus
  \/ \E i \in 1..Len(socketInfoByWs) : SocketClosing(i)
  \/ \E i \in 1..Len(socketInfoByWs), role \in HelloRoles : Hello(i, role) /\ NoHistory
  \/ \E i \in 1..Len(socketInfoByWs) : Heartbeat(i) /\ NoClient
  \/ \E i \in 1..Len(socketInfoByWs), message \in ModeMessages : Command(i, message) /\ NoStatus
  \/ \E i \in 1..Len(socketInfoByWs) : Close(i) /\ NoHistory

Spec == Init /\ [][Next]_vars

(* The lock protocol with the clock running, among MaxTimedSockets connections *)
NextTimed ==
  \/ AdvanceClock(MaxNow)
  \/ Connect(MaxTimedSockets)
  \/ MonitorTick /\ NoStatus
  \/ \E i \in 1..Len(socketInfoByWs) : SocketClosing(i)
  \/ \E i \in 1..Len(socketInfoByWs), role \in DeclaredRoles : Hello(i, role) /\ NoHistory
  \/ \E i \in 1..Len(socketInfoByWs) : Heartbeat(i) /\ NoClient
  \/ \E i \in 1..Len(socketInfoByWs), message \in ModeMessages : Command(i, message) /\ NoStatus
  \/ \E i \in 1..Len(socketInfoByWs) : Close(i) /\ NoHistory

SpecTimed == Init /\ [][NextTimed]_vars

(* Claim, release and promotion among MaxOrderSockets connections, with the *)
(* order of the role declarations recorded                                  *)
NextOrder ==
  \/ Connect(MaxOrderSockets)
  \/ MonitorTick /\ NoStatus
  \/ \E i \in 1..Len(socketInfoByWs) : SocketClosing(i)
  \/ \E i \in 1..Len(socketInfoByWs), role \in DeclaredRoles : Hello(i, role) /\ TrackControlSince /\ NoStatus
  \/ \E i \in 1..Len(socketInfoByWs) : Close(i) /\ TrackControlSince /\ NoStatus

SpecOrder == Init /\ [][NextOrder]_vars

(* The command router: every handler, among MaxRouterSockets connections *)
NextRouter ==
  \/ Connect(MaxRouterSockets)
  \/ MonitorTick /\ NoStatus
  \/ \E i \in 1..Len(socketInfoByWs) : SocketClosing(i)
  \/ \E i \in 1..Len(socketInfoByWs), role \in DeclaredRoles : Hello(i, role) /\ NoHistory
  \/ \E i \in 1..Len(socketInfoByWs) : Heartbeat(i) /\ NoClient
  \/ \E i \in 1..Len(socketInfoByWs) : RequestState(i) /\ NoStatus
  \/ \E i \in 1..Len(socketInfoByWs), message \in RouterMessages : Command(i, message) /\ NoStatus
  \/ \E i \in 1..Len(socketInfoByWs) : InvalidJson(i)
  \/ \E i \in 1..Len(socketInfoByWs) : UnknownType(i)
  \/ \E i \in 1..Len(socketInfoByWs) : Close(i) /\ NoHistory

SpecRouter == Init /\ [][NextRouter]_vars

(* The position state under every message, among MaxPositionSockets connections *)
NextPosition ==
  \/ Connect(MaxPositionSockets)
  \/ \E i \in 1..Len(socketInfoByWs) : Hello(i, "control") /\ NoHistory
  \/ \E i \in 1..Len(socketInfoByWs), message \in MutatingMessages : Command(i, message) /\ NoStatus
  \/ \E i \in 1..Len(socketInfoByWs) : Close(i) /\ NoHistory

SpecPosition == Init /\ [][NextPosition]_vars

(* What each socket was last told of the lock, among MaxStatusSockets       *)
(* connections, with a clock that moves on by more than the timeout at once *)
NextStatus ==
  \/ AdvanceClockPastTimeout(MaxStatusNow)
  \/ Connect(MaxStatusSockets)
  \/ MonitorTick /\ TrackStatus /\ UNCHANGED <<display, control>>
  \/ \E i \in 1..Len(socketInfoByWs) : SocketClosing(i)
  \/ \E i \in 1..Len(socketInfoByWs), role \in DeclaredRoles : Hello(i, role) /\ TrackStatus /\ UNCHANGED <<controlSince, display, control>>
  \/ \E i \in 1..Len(socketInfoByWs) : Heartbeat(i) /\ NoClient
  \/ \E i \in 1..Len(socketInfoByWs) : RequestState(i) /\ TrackStatus /\ UNCHANGED <<display, control>>
  \/ \E i \in 1..Len(socketInfoByWs), message \in ModeMessages : Command(i, message) /\ TrackStatus /\ UNCHANGED <<display, control>>
  \/ \E i \in 1..Len(socketInfoByWs) : Close(i) /\ TrackStatus /\ UNCHANGED <<controlSince, display, control>>

SpecStatus == Init /\ [][NextStatus]_vars

(* The display page and the lock: the page's socket among MaxDisplaySockets *)
(* connections, the others those of control clients, with a clock that     *)
(* moves on by more than the timeout at once                               *)
NextDisplay ==
  \/ AdvanceClockPastTimeout(MaxDisplayNow)
  \/ Connect(MaxDisplaySockets)
  \/ MonitorTick /\ DeliverToDisplay
  \/ \E i \in 1..Len(socketInfoByWs) : SocketClosing(i)
  \/ \E i \in 1..Len(socketInfoByWs) :
       socketInfoByWs[i].id # display.socketId /\ Hello(i, "control") /\ DeliverToDisplay
  \/ \E i \in 1..Len(socketInfoByWs) : Close(i) /\ DeliverToDisplay
  \/ \E ok \in BOOLEAN : DisplayFetchBootstrap(ok)
  \/ \E i \in 1..Len(socketInfoByWs) : DisplaySocketOpen(i)
  \/ \E i \in 1..Len(socketInfoByWs) : DisplayHello(i)
  \/ DisplayReceive
  \/ DisplayClose

SpecDisplay == Init /\ [][NextDisplay]_vars

(* The control page and the lock: the page's socket among MaxControlSockets  *)
(* connections, the others those of controllers that send no heartbeat; the *)
(* clock moves on only when the page's heartbeat interval is not due        *)
NextControl ==
  \/ ~HeartbeatDue /\ AdvanceClock(MaxControlNow)
  \/ Connect(MaxControlSockets)
  \/ MonitorTick /\ DeliverToControl
  \/ \E i \in 1..Len(socketInfoByWs) :
       socketInfoByWs[i].id = control.socketId /\ SocketClosing(i)
  \/ \E i \in 1..Len(socketInfoByWs) :
       socketInfoByWs[i].role = "unknown" /\ Hello(i, "control") /\ DeliverToControl
  \/ \E i \in 1..Len(socketInfoByWs) : Close(i) /\ DeliverToControl
  \/ \E ok \in BOOLEAN : ControlFetchBootstrap(ok)
  \/ \E i \in 1..Len(socketInfoByWs) : ControlSocketOpen(i)
  \/ ControlConnectFails
  \/ ControlReconnectTimer
  \/ ControlReceive
  \/ \E i \in 1..Len(socketInfoByWs) : ControlHeartbeat(i)
  \/ ControlHeartbeatLost
  \/ \E i \in 1..Len(socketInfoByWs), message \in ModeMessages : ControlCommand(i, message)
  \/ ControlClose

SpecControl == Init /\ [][NextControl]_vars

\* the reconnect timeout of scheduleReconnect (1500 ms) fires once it is set:
\* nothing of the page clears it
SpecControlFair == SpecControl /\ WF_vars(ControlReconnectTimer)

\* the messages of a client written for the scripture-only server
LegacyMessages ==
  {Message("set_state", "", q[1], q[2], "", JsNaN, "") :
     q \in {<<JsNaN, JsNaN>>, <<JsNum(2), JsNum(-1)>>, <<JsNum(0), JsNum(2)>>,
            <<JsNum(9), JsNum(2)>>}}

(* The events a client of the scripture-only server causes, among              *)
(* MaxLegacySockets connections and up to the instant MaxLegacyNow; the clock  *)
(* moves past the controller timeout between two instants                      *)
NextLegacy ==
  \/ AdvanceClockPastTimeout(MaxLegacyNow)
  \/ Connect(MaxLegacySockets)
  \/ MonitorTick /\ NoStatus
  \/ \E i \in 1..Len(socketInfoByWs), role \in DeclaredRoles : Hello(i, role) /\ NoHistory
  \/ \E i \in 1..Len(socketInfoByWs) : Heartbeat(i) /\ NoClient
  \/ \E i \in 1..Len(socketInfoByWs), message \in LegacyMessages : Command(i, message) /\ NoStatus
  \/ \E i \in 1..Len(socketInfoByWs) : Close(i) /\ NoHistory

SpecLegacy == Init /\ [][NextLegacy]_vars

(* The messages the server does not act on: malformed ones, those of an     *)
(* unknown type and the JSON text null, and the bootstrap it serves over   *)
(* HTTP, among sockets that declare roles, disconnect and time out         *)
NextIgnored ==
  \/ ServerRunning /\ AdvanceClockPastTimeout(MaxIgnoredNow)
  \/ ServerRunning /\ Connect(MaxIgnoredSockets)
  \/ ServerRunning /\ MonitorTick /\ NoStatus
  \/ \E i \in 1..Len(socketInfoByWs) : ServerRunning /\ SocketClosing(i)
  \/ \E i \in 1..Len(socketInfoByWs), role \in DeclaredRoles : ServerRunning /\ Hello(i, role) /\ NoHistory
  \/ \E i \in 1..Len(socketInfoByWs) : ServerRunning /\ InvalidJson(i)
  \/ \E i \in 1..Len(socketInfoByWs) : ServerRunning /\ UnknownType(i)
  \/ \E i \in 1..Len(socketInfoByWs) : ServerRunning /\ NullMessage(i)
  \/ \E role \in HelloRoles : ServerRunning /\ ApiBootstrap(role)
  \/ \E i \in 1..Len(socketInfoByWs) : ServerRunning /\ Close(i) /\ NoHistory

SpecIgnored == Init /\ [][NextIgnored]_vars

----------------------------------------------------------------------------
(* Properties *)

\* the registry entry of a registered socket id
InfoOf(id) == socketInfoByWs[getSocketInfoById(socketInfoByWs, id)]

IsRegistered(id) == getSocketInfoById(socketInfoByWs, id) # 0

\* the registry positions of the control-role sockets other than the one that
\* held the lock before the last handler ran
OtherControllers ==
  {i \in 1..Len(socketInfoByWs) : /\ socketInfoByWs[i].role = "control"
                                  /\ socketInfoByWs[i].id # lastEvent.prevActive}

\* those of them whose connection is open
OpenOtherControllers == {i \in OtherControllers : socketInfoByWs[i].readyState = "OPEN"}

IdsAt(S) == {socketInfoByWs[i].id : i \in S}

\* C1: the lock holds no id or one id, and an id it holds is the id of exactly
\* one socket of the registry, whatever connects, declares a role, sends a
\* heartbeat or a command, disconnects or times out.
C1_HolderIsRegistered ==
  /\ activeControllerId \in Nat
  /\ activeControllerId # NULL =>
       Cardinality({i \in 1..Len(socketInfoByWs) :
                      socketInfoByWs[i].id = activeControllerId}) = 1

\* the holder closed its socket and the lock went on to a registered socket
C1_Witness ==
  /\ lastEvent.op = "close"
  /\ lastEvent.released
  /\ IsRegistered(activeControllerId)
  /\ ~IsRegistered(lastEvent.prevActive)

\* C2: the socket that holds the lock has role control, also after it sent
\* hello again.
C2_HolderHasControlRole ==
  activeControllerId # NULL =>
    \E i \in 1..Len(socketInfoByWs) :
      socketInfoByWs[i].id = activeControllerId /\ socketInfoByWs[i].role = "control"

\* C3: once a hello has set a socket's role, no later step changes it.
C3_RoleSetOnce ==
  [][\A i \in 1..Len(socketInfoByWs), j \in 1..Len(socketInfoByWs') :
       (socketInfoByWs[i].id = socketInfoByWs'[j].id /\ socketInfoByWs[i].role # "unknown")
         => socketInfoByWs'[j].role = socketInfoByWs[i].role]_vars

\* the last handler was a hello that asked for role control
HelloAsControl ==
  /\ lastEvent.op = "hello"
  /\ IsRegistered(lastEvent.id)
  /\ InfoOf(lastEvent.id).role = "control"

\* C4: a hello with role control takes the lock in that step when the lock is
\* free; when another socket holds it the holder stays, and what the sender is
\* told (control_lock, bootstrap) says isActiveController false and
\* lockedByAnother true.
C4_FirstControllerWins ==
  HelloAsControl =>
    /\ lastEvent.prevActive = NULL => activeControllerId = lastEvent.id
    /\ lastEvent.prevActive \notin {NULL, lastEvent.id} =>
         /\ activeControllerId = lastEvent.prevActive
         /\ \E k \in 1..Len(sent) : sent[k].to = lastEvent.id /\ sent[k].type = "bootstrap"
         /\ \A k \in 1..Len(sent) :
              (sent[k].to = lastEvent.id /\ sent[k].type \in {"bootstrap", "control_lock"})
                => (~ConnectionOf(sent[k]).isActiveController
                      /\ ConnectionOf(sent[k]).lockedByAnother)

\* a second controller declared its role while the first held the lock
C4_Witness ==
  /\ HelloAsControl
  /\ lastEvent.prevActive \notin {NULL, lastEvent.id}
  /\ activeControllerId = lastEvent.prevActive
  /\ Len(sent) >= 2

\* C5 as claimed: after a release, one of the other registered control-role
\* sockets holds the lock if there is any, and the lock is free if there is none.
C5_ReleasePromotesRegistered ==
  lastEvent.released =>
    IF OtherControllers # {}
    THEN activeControllerId \in IdsAt(OtherControllers)
    ELSE activeControllerId = NULL

\* C5 as amended: after a release, one of the other registered control-role
\* sockets with an open connection holds the lock if there is any, and the lock
\* is free if there is none.
C5_ReleasePromotesOpen ==
  lastEvent.released =>
    IF OpenOtherControllers # {}
    THEN activeControllerId \in IdsAt(OpenOtherControllers)
    ELSE activeControllerId = NULL

\* the monitor released a timed-out holder and a waiting controller took over
C5_Witness ==
  /\ lastEvent.op = "monitor"
  /\ lastEvent.released
  /\ OpenOtherControllers # {}
  /\ activeControllerId \in IdsAt(OpenOtherControllers)

\* C6 as claimed: the socket promoted by a release is the first control-role
\* socket of the registry other than the released one; it has the lowest id
\* of them, and the handler that ran was none of its own.
C6_PromotesFirstRegistered ==
  (lastEvent.released /\ activeControllerId # NULL) =>
    /\ OtherControllers # {}
    /\ getSocketInfoById(socketInfoByWs, activeControllerId) = SetMin(OtherControllers)
    /\ activeControllerId = SetMin(IdsAt(OtherControllers))
    /\ lastEvent.op \in {"close", "monitor"}
    /\ lastEvent.id # activeControllerId

\* C6 as amended: the socket promoted by a release is the first control-role
\* socket of the registry with an open connection, other than the released
\* one; it has the lowest id of them (connection order), and the handler that
\* ran was none of its own.
C6_PromotesFirstOpen ==
  (lastEvent.released /\ activeControllerId # NULL) =>
    /\ OpenOtherControllers # {}
    /\ getSocketInfoById(socketInfoByWs, activeControllerId) = SetMin(OpenOtherControllers)
    /\ activeControllerId = SetMin(IdsAt(OpenOtherControllers))
    /\ lastEvent.op \in {"close", "monitor"}
    /\ lastEvent.id # activeControllerId

\* position of a socket id in the order of the role declarations, 0 if absent
DeclaredAt(id) ==
  LET at == {k \in 1..Len(controlSince) : controlSince[k] = id}
  IN IF at = {} THEN 0 ELSE SetMin(at)

\* a release promoted a socket although another open controller had declared
\* its role before it
C6_Witness ==
  /\ lastEvent.released
  /\ activeControllerId # NULL
  /\ \E i \in OpenOtherControllers :
       /\ socketInfoByWs[i].id > activeControllerId
       /\ DeclaredAt(socketInfoByWs[i].id) # 0
       /\ DeclaredAt(socketInfoByWs[i].id) < DeclaredAt(activeControllerId)

\* the last handler was the close of the socket that held the lock
HolderClosed == lastEvent.op = "close" /\ lastEvent.id = lastEvent.prevActive

\* C7: when the holder's socket closes while another control-role socket is
\* connected (in the registry, connection open), that step removes the holder
\* from the registry, makes the first such socket the holder and sends it a
\* control_lock with isActiveController true.
C7_DisconnectPromotesAndNotifies ==
  (HolderClosed /\ OpenOtherControllers # {}) =>
    /\ ~IsRegistered(lastEvent.id)
    /\ activeControllerId = socketInfoByWs[SetMin(OpenOtherControllers)].id
    /\ \E k \in 1..Len(sent) :
         /\ sent[k].to = activeControllerId
         /\ sent[k].type = "control_lock"
         /\ sent[k].isActiveController
         /\ ~sent[k].lockedByAnother
         /\ sent[k].controllerConnected

\* the holder closed, and the waiting controller was told it is now active
C7_Witness ==
  /\ HolderClosed
  /\ activeControllerId # NULL
  /\ \E k \in 1..Len(sent) :
       sent[k].to = activeControllerId /\ sent[k].type = "control_lock"
         /\ sent[k].isActiveController

\* the last handler was a monitor tick that found the lock held
TickWithHolder ==
  lastEvent.op = "monitor" /\ lastEvent.prevActive # NULL /\ IsRegistered(lastEvent.prevActive)

\* the time since the liveness timestamp of the socket that held the lock
ElapsedOfPrevious == now - InfoOf(lastEvent.prevActive).lastHeartbeatAt

\* C8: a monitor tick releases the holder exactly when the time since its
\* liveness timestamp is greater than the controller timeout; it then stops
\* being the holder, and the first other connected control-role socket, if
\* any, is the holder; at any other tick the holder stays.
C8_TimeoutReleasesWhenExceeded ==
  TickWithHolder =>
    /\ lastEvent.released <=> ElapsedOfPrevious > CONTROLLER_TIMEOUT_MS
    /\ lastEvent.released =>
         /\ activeControllerId # lastEvent.prevActive
         /\ OpenOtherControllers # {} =>
              activeControllerId = socketInfoByWs[SetMin(OpenOtherControllers)].id
    /\ ~lastEvent.released => activeControllerId = lastEvent.prevActive

\* the holder timed out and the other controller was promoted
C8_Witness ==
  /\ TickWithHolder
  /\ lastEvent.released
  /\ ElapsedOfPrevious > CONTROLLER_TIMEOUT_MS
  /\ activeControllerId \notin {NULL, lastEvent.prevActive}

\* C9: a release by timeout never promotes the socket that timed out: it stays
\* registered and is not the holder, and the lock is free if no other
\* control-role socket is registered.
C9_TimedOutNotPromoted ==
  (lastEvent.op = "monitor" /\ lastEvent.released) =>
    /\ IsRegistered(lastEvent.prevActive)
    /\ activeControllerId # lastEvent.prevActive
    /\ OtherControllers = {} => activeControllerId = NULL

\* the only controller timed out with its connection open: the lock is free
C9_Witness ==
  /\ lastEvent.op = "monitor"
  /\ lastEvent.released
  /\ IsRegistered(lastEvent.prevActive)
  /\ InfoOf(lastEvent.prevActive).role = "control"
  /\ InfoOf(lastEvent.prevActive).readyState = "OPEN"
  /\ OtherControllers = {}
  /\ activeControllerId = NULL

\* C10: the position state differs from what it was before the last handler
\* only if that handler processed a mutating command sent by the socket that
\* held the lock.
C10_OnlyHolderCommandsMove ==
  currentState # lastEvent.prevState =>
    /\ lastEvent.op = "command"
    /\ lastEvent.id = lastEvent.prevActive

\* the holder moved the position while another controller was waiting
C10_Witness ==
  /\ lastEvent.op = "command"
  /\ currentState # lastEvent.prevState
  /\ lastEvent.id = activeControllerId
  /\ OtherControllers # {}

\* the last handler ran on a mutating command of a socket that did not hold the lock
\* as a controller: the command was rejected
CommandRejected ==
  /\ lastEvent.op = "command"
  /\ IsRegistered(lastEvent.id)
  /\ ~(InfoOf(lastEvent.id).role = "control" /\ lastEvent.id = lastEvent.prevActive)

\* some socket other than the sender of the last message holds the lock
AnotherHoldsLock ==
  \E j \in 1..Len(socketInfoByWs) :
    socketInfoByWs[j].id = activeControllerId /\ socketInfoByWs[j].id # lastEvent.id

\* C11: a mutating command of a control-role socket that does not hold the
\* lock is answered with an error and then a control_lock for the sender, with
\* isActiveController false and lockedByAnother true exactly when another
\* socket holds the lock; no other socket is sent anything.
C11_WaitingControllerRejected ==
  (CommandRejected /\ InfoOf(lastEvent.id).role = "control") =>
    /\ Len(sent) = 2
    /\ \A k \in 1..Len(sent) : sent[k].to = lastEvent.id
    /\ sent[1].type = "error"
    /\ sent[2].type = "control_lock"
    /\ ~sent[2].isActiveController
    /\ sent[2].lockedByAnother <=> AnotherHoldsLock
    /\ currentState = lastEvent.prevState
    /\ activeControllerId = lastEvent.prevActive

\* a waiting controller sent a command while the other socket held the lock
C11_Witness ==
  /\ CommandRejected
  /\ InfoOf(lastEvent.id).role = "control"
  /\ AnotherHoldsLock
  /\ Len(sent) = 2
  /\ sent[2].lockedByAnother

CommandAccepted ==
  /\ lastEvent.op = "command"
  /\ IsRegistered(lastEvent.id)
  /\ InfoOf(lastEvent.id).role = "control"
  /\ lastEvent.id = lastEvent.prevActive

\* C13: the stored position is within bounds in every state: the surah number
\* in 1..totalSurahs, the ayah number in 1..the ayah count of that surah, the
\* dua id one of the loaded duas, the line index in 1..the line count of that
\* dua, whatever values the accepted commands carried.
C13_PositionInBounds ==
  /\ currentState.mode \in {"quran", "dua"}
  /\ currentState.quran.surahNumber \in 1..totalSurahs
  /\ currentState.quran.ayahNumber \in 1..getMaxAyahForSurah(currentState.quran.surahNumber)
  /\ currentState.dua.duaId \in DOMAIN duaDataById
  /\ currentState.dua.lineIndex \in 1..duaDataById[currentState.dua.duaId]

\* an accepted setQuran asked for surah 9 and ayah 2 and the position went to
\* the last surah, at its only ayah
C13_Witness ==
  /\ CommandAccepted
  /\ lastEvent.arg.type = "setQuran"
  /\ lastEvent.arg.surahNumber = JsNum(9)
  /\ lastEvent.arg.ayahNumber = JsNum(2)
  /\ currentState.quran.surahNumber = totalSurahs
  /\ currentState.quran.ayahNumber = getMaxAyahForSurah(totalSurahs)
  /\ currentState # lastEvent.prevState

\* the last handler accepted a step in that direction: a message of that type,
\* or of type step with that direction
SteppedTo(direction) ==
  /\ CommandAccepted
  /\ \/ lastEvent.arg.type = direction
     \/ lastEvent.arg.type = "step" /\ lastEvent.arg.direction = direction

\* C14: in quran mode a step next from (s, i) gives (s, i + 1) below the ayah
\* count of s, (s + 1, 1) at the ayah count of a surah that is not the last, and
\* (s, i) at the end of the last surah; a step prev gives (s, i - 1) when
\* i > 1, (s - 1, ayah count of s - 1) when i = 1 and s > 1, and (1, 1) at
\* (1, 1); mode and dua position stay.
C14_QuranStep ==
  LET s == lastEvent.prevState.quran.surahNumber
      i == lastEvent.prevState.quran.ayahNumber
      q == currentState.quran
  IN lastEvent.prevState.mode = "quran" =>
       /\ SteppedTo("next") =>
            /\ i < getMaxAyahForSurah(s) => q = [surahNumber |-> s, ayahNumber |-> i + 1]
            /\ (i = getMaxAyahForSurah(s) /\ s < totalSurahs) =>
                 q = [surahNumber |-> s + 1, ayahNumber |-> 1]
            /\ (i = getMaxAyahForSurah(s) /\ s = totalSurahs) =>
                 q = [surahNumber |-> s, ayahNumber |-> i]
       /\ SteppedTo("prev") =>
            /\ i > 1 => q = [surahNumber |-> s, ayahNumber |-> i - 1]
            /\ (i = 1 /\ s > 1) =>
                 q = [surahNumber |-> s - 1, ayahNumber |-> getMaxAyahForSurah(s - 1)]
            /\ (i = 1 /\ s = 1) => q = [surahNumber |-> 1, ayahNumber |-> 1]
       /\ (SteppedTo("next") \/ SteppedTo("prev")) =>
            /\ currentState.mode = "quran"
            /\ currentState.dua = lastEvent.prevState.dua

\* a step next at the last ayah of the last surah left the position there
C14_Witness ==
  /\ SteppedTo("next")
  /\ lastEvent.prevState.mode = "quran"
  /\ lastEvent.prevState.quran.surahNumber = totalSurahs
  /\ lastEvent.prevState.quran.ayahNumber = getMaxAyahForSurah(totalSurahs)
  /\ currentState = lastEvent.prevState

\* C15: in dua mode a step changes the line index alone, by one and within
\* 1..the line count of the current dua: next at the last line and prev at
\* line 1 leave the state as it is.
C15_DuaStep ==
  LET d == lastEvent.prevState.dua
      lines == duaDataById[d.duaId]
  IN lastEvent.prevState.mode = "dua" =>
       /\ SteppedTo("next") =>
            currentState.dua.lineIndex = IF d.lineIndex < lines THEN d.lineIndex + 1 ELSE d.lineIndex
       /\ SteppedTo("prev") =>
            currentState.dua.lineIndex = IF d.lineIndex > 1 THEN d.lineIndex - 1 ELSE d.lineIndex
       /\ (SteppedTo("next") \/ SteppedTo("prev")) =>
            /\ currentState.dua.duaId = d.duaId
            /\ currentState.mode = "dua"
            /\ currentState.quran = lastEvent.prevState.quran

\* a step next at the last line of iftitah left the state as it was
C15_Witness ==
  /\ SteppedTo("next")
  /\ lastEvent.prevState.mode = "dua"
  /\ lastEvent.prevState.dua.duaId = "iftitah"
  /\ lastEvent.prevState.dua.lineIndex = duaDataById["iftitah"]
  /\ currentState = lastEvent.prevState

\* the last handler accepted a set-mode command
ModeSet == CommandAccepted /\ lastEvent.arg.type \in {"setMode", "set_mode"}

\* C16: an accepted set-mode changes the mode alone, to dua when dua is asked
\* for and to quran otherwise, and leaves the quran position and the dua
\* position as they were; a set-mode back to the mode before it gives the
\* state before it.
C16_ModeSwitchRestores ==
  ModeSet =>
    /\ currentState.mode = IF lastEvent.arg.mode = "dua" THEN "dua" ELSE "quran"
    /\ currentState.quran = lastEvent.prevState.quran
    /\ currentState.dua = lastEvent.prevState.dua
    /\ setMode(currentState, lastEvent.prevState.mode, socketInfoByWs).state
         = lastEvent.prevState

\* the mode went from quran to dua with both domains away from their first
\* position
C16_Witness ==
  /\ ModeSet
  /\ lastEvent.prevState.mode = "quran"
  /\ currentState.mode = "dua"
  /\ lastEvent.prevState.quran # [surahNumber |-> 1, ayahNumber |-> 1]
  /\ lastEvent.prevState.dua.lineIndex # 1
  /\ currentState.quran = lastEvent.prevState.quran
  /\ currentState.dua = lastEvent.prevState.dua

\* C17: an accepted command sends state_update messages exactly when the
\* clamped state it resolves to differs from the state before it; when it
\* resolves to the state before it, nothing is sent to any socket.
C17_BroadcastIffChanged ==
  CommandAccepted =>
    /\ (currentState # lastEvent.prevState)
         <=> (\E k \in 1..Len(sent) : sent[k].type = "state_update")
    /\ currentState = lastEvent.prevState => sent = <<>>

\* an accepted setQuran for surah 9 resolved to the stored position: nothing sent
C17_Witness ==
  /\ CommandAccepted
  /\ lastEvent.arg.type = "setQuran"
  /\ lastEvent.arg.surahNumber = JsNum(9)
  /\ currentState = lastEvent.prevState
  /\ sent = <<>>

\* the messages the last handler sent to a socket id
SentTo(id) == {k \in 1..Len(sent) : sent[k].to = id}

\* C18: when an accepted command changes the position, every registered
\* socket with an open connection is sent exactly one message, a state_update
\* with the new state and its content, whatever its role (display, the
\* holder, a waiting controller, no role declared yet).
C18_StateUpdateToEverySocket ==
  (CommandAccepted /\ currentState # lastEvent.prevState) =>
    \A i \in 1..Len(socketInfoByWs) :
      IF socketInfoByWs[i].readyState = "OPEN"
      THEN /\ Cardinality(SentTo(socketInfoByWs[i].id)) = 1
           /\ \A k \in SentTo(socketInfoByWs[i].id) :
                /\ sent[k].type = "state_update"
                /\ sent[k].state = currentState
                /\ sent[k].content = getCurrentContentPayload(currentState)
      ELSE SentTo(socketInfoByWs[i].id) = {}

\* the holder moved the position and a socket that had declared no role was
\* sent the state_update
C18_Witness ==
  /\ CommandAccepted
  /\ currentState # lastEvent.prevState
  /\ \E i \in 1..Len(socketInfoByWs) :
       /\ socketInfoByWs[i].role = "unknown"
       /\ \E k \in SentTo(socketInfoByWs[i].id) :
            sent[k].type = "state_update" /\ sent[k].state = currentState

\* the lock status a control-role socket is to know: what the current lock
\* says of it
DerivedStatus(id) ==
  [controllerConnected |-> activeControllerId # NULL,
   isActiveController |-> id = activeControllerId,
   lockedByAnother |-> activeControllerId # NULL /\ id # activeControllerId]

\* C19: after every handler, each control-role socket with an open connection
\* was last told (control_lock or bootstrap) the status the current lock gives
\* it: isActiveController iff it holds the lock, lockedByAnother iff another
\* socket holds it, controllerConnected iff the lock is held; each
\* display-role socket with an open connection was last told a
\* controllerConnected flag that says whether the lock is held.
C19_EverySocketKnowsItsStanding ==
  \A i \in 1..Len(socketInfoByWs) :
    LET info == socketInfoByWs[i]
    IN info.readyState = "OPEN" =>
         /\ info.role = "control" =>
              /\ info.id \in DOMAIN lastStatus
              /\ lastStatus[info.id].told
              /\ lastStatus[info.id].lock = DerivedStatus(info.id)
         /\ info.role = "display" =>
              /\ info.id \in DOMAIN lastStatus
              /\ lastStatus[info.id].connected = (activeControllerId # NULL)

\* the monitor released the only controller, timed out with its connection
\* open; it was told that it holds the lock no more and that the lock is
\* free, and the display client that no controller is connected
C19_Witness ==
  /\ lastEvent.op = "monitor"
  /\ lastEvent.released
  /\ activeControllerId = NULL
  /\ IsRegistered(lastEvent.prevActive)
  /\ InfoOf(lastEvent.prevActive).role = "control"
  /\ InfoOf(lastEvent.prevActive).readyState = "OPEN"
  /\ lastEvent.prevActive \in DOMAIN lastStatus
  /\ ~lastStatus[lastEvent.prevActive].lock.isActiveController
  /\ ~lastStatus[lastEvent.prevActive].lock.controllerConnected
  /\ \E i \in 1..Len(socketInfoByWs) :
       /\ socketInfoByWs[i].role = "display"
       /\ socketInfoByWs[i].readyState = "OPEN"
       /\ socketInfoByWs[i].id \in DOMAIN lastStatus
       /\ ~lastStatus[socketInfoByWs[i].id].connected

\* C20: a heartbeat of a socket that does not hold the lock changes nothing:
\* every socket's liveness timestamp (the holder's too), role and connection,
\* the lock and the position stay, and no message is sent.
C20_ForeignHeartbeatChangesNothing ==
  [][(lastEvent'.op = "heartbeat" /\ lastEvent'.id # activeControllerId) =>
       /\ socketInfoByWs' = socketInfoByWs
       /\ activeControllerId' = activeControllerId
       /\ currentState' = currentState
       /\ socketIdCounter' = socketIdCounter
       /\ sent' = <<>>]_vars

\* a waiting controller sent a heartbeat while another socket held the lock,
\* both with a liveness timestamp in the past, and the timestamps stayed
C20_Witness ==
  /\ lastEvent.op = "heartbeat"
  /\ lastEvent.prevActive \notin {NULL, lastEvent.id}
  /\ IsRegistered(lastEvent.id)
  /\ IsRegistered(lastEvent.prevActive)
  /\ InfoOf(lastEvent.id).role = "control"
  /\ InfoOf(lastEvent.id).lastHeartbeatAt < now
  /\ InfoOf(lastEvent.prevActive).lastHeartbeatAt < now
  /\ activeControllerId = lastEvent.prevActive

(* C21: the QR overlay of the display page *)

\* the display page has a connection the server has heard its hello on
DisplayAttached ==
  /\ display.pc = "open"
  /\ display.helloSent
  /\ \E i \in 1..Len(socketInfoByWs) :
       socketInfoByWs[i].id = display.socketId /\ socketInfoByWs[i].readyState = "OPEN"

\* the display page has processed every message sent to it
DisplayCaughtUp == display.inbox = <<>>

C22_SessionIdsIncrease ==
  [][/\ \A i, j \in 1..Len(socketInfoByWs) :
          i < j => socketInfoByWs[i].id < socketInfoByWs[j].id
     /\ \A i \in 1..Len(socketInfoByWs) : socketInfoByWs[i].id < socketIdCounter
     /\ socketIdCounter' >= socketIdCounter
     /\ \A j \in 1..Len(socketInfoByWs') :
          socketInfoByWs'[j].id \notin RegisteredIds(socketInfoByWs)
            => /\ socketInfoByWs'[j].id = socketIdCounter
               /\ socketIdCounter' = socketIdCounter + 1
               /\ j = Len(socketInfoByWs')]_vars

\* a session connected after an earlier one went away, and its id is above
\* the id of the session that left
C22_Witness ==
  /\ lastEvent.op = "connection"
  /\ lastEvent.id = socketIdCounter - 1
  /\ \E k \in 1..(lastEvent.id - 1) : k \notin RegisteredIds(socketInfoByWs)

(* C23: a claim while the lock is held *)

\* C23: a hello with role control handled while some socket holds the lock
\* changes neither the holder nor any socket's liveness timestamp
C23_ClaimWhileHeldIsNoOp ==
  [][(/\ lastEvent'.op = "hello"
      /\ activeControllerId # NULL
      /\ \E i \in 1..Len(socketInfoByWs') :
           /\ socketInfoByWs'[i].id = lastEvent'.id
           /\ socketInfoByWs'[i].role = "control") =>
       /\ activeControllerId' = activeControllerId
       /\ Len(socketInfoByWs') = Len(socketInfoByWs)
       /\ \A i \in 1..Len(socketInfoByWs) :
            socketInfoByWs'[i].lastHeartbeatAt = socketInfoByWs[i].lastHeartbeatAt]_vars

(* C24: what refreshes the holder's liveness timestamp *)

\* the last handler made its sender the holder of a lock that was free
ClaimedLock ==
  /\ lastEvent.op = "hello"
  /\ lastEvent.prevActive = NULL
  /\ activeControllerId = lastEvent.id

\* the last handler handled a heartbeat of the socket that held the lock
HolderHeartbeat ==
  /\ lastEvent.op = "heartbeat"
  /\ lastEvent.prevActive # NULL
  /\ lastEvent.id = lastEvent.prevActive

\* C24: after the holder claimed the lock, after every heartbeat of the holder
\* and after every accepted mutating command, also one that leaves the
\* position as it was and sends nothing, the holder's liveness timestamp is
\* the current time
C24_HolderTimestampRefreshed ==
  (ClaimedLock \/ HolderHeartbeat \/ CommandAccepted)
    => /\ IsRegistered(lastEvent.id)
       /\ InfoOf(lastEvent.id).lastHeartbeatAt = now

(* C25: the liveness timestamp of a promoted socket *)

\* the liveness timestamp of the socket of this id in a registry, -1 when the
\* registry has no such socket
TimestampOf(reg, id) ==
  LET k == getSocketInfoById(reg, id)
  IN IF k = 0 THEN -1 ELSE reg[k].lastHeartbeatAt

\* C25: a release that promotes a socket sets that socket's liveness timestamp
\* to the time of the promotion; while a socket holds the lock its timestamp
\* never goes back; and the monitor releases a registered holder only when the
\* time since the holder's timestamp exceeds the timeout. So a socket promoted
\* at time t is not released for timeout at a tick before t + timeout, however
\* old its timestamp was while it waited.
C25_PromotionResetsTimestamp ==
  [][/\ (lastEvent'.released /\ activeControllerId' # NULL)
          => TimestampOf(socketInfoByWs', activeControllerId') = now'
     /\ (activeControllerId # NULL /\ activeControllerId' = activeControllerId
          /\ TimestampOf(socketInfoByWs', activeControllerId) # -1)
          => TimestampOf(socketInfoByWs', activeControllerId)
               >= TimestampOf(socketInfoByWs, activeControllerId)
     /\ (lastEvent'.op = "monitor" /\ lastEvent'.released
          /\ TimestampOf(socketInfoByWs, activeControllerId) # -1)
          => now - TimestampOf(socketInfoByWs, activeControllerId) > CONTROLLER_TIMEOUT_MS]_vars

\* the holder timed out after the clock had moved on, a waiting controller was
\* promoted, and its timestamp is the time of the promotion
C25_Witness ==
  /\ lastEvent.op = "monitor"
  /\ lastEvent.released
  /\ now > CONTROLLER_TIMEOUT_MS
  /\ activeControllerId \notin {NULL, lastEvent.prevActive}
  /\ IsRegistered(lastEvent.prevActive)
  /\ TimestampOf(socketInfoByWs, activeControllerId) = now

(* C26: a controller that timed out and was not replaced *)

\* the registered control-role sockets with an open connection while the lock
\* is free: a hello with role control takes a free lock and a release promotes
\* every open controller but the one that timed out, so these are the
\* controllers that timed out and were not replaced
TimedOutControllers ==
  IF activeControllerId # NULL THEN {}
  ELSE {socketInfoByWs[i].id : i \in {k \in 1..Len(socketInfoByWs) :
                                        /\ socketInfoByWs[k].role = "control"
                                        /\ socketInfoByWs[k].readyState = "OPEN"}}

\* C26: no message of a controller that timed out and was not replaced makes
\* it the holder again
C26_TimedOutNeverReclaims ==
  [][(/\ lastEvent'.id \in TimedOutControllers
      /\ lastEvent'.op \in {"hello", "heartbeat", "command", "request_state",
                            "invalid_json", "unknown_type"})
       => activeControllerId' # lastEvent'.id]_vars

(* C27: the disconnect of a socket that does not hold the lock *)

\* C27: the disconnect of a socket that does not hold the lock removes that
\* socket from the registry and nothing else: the other sockets keep their
\* entries, liveness timestamps included, the holder and the position stay, no
\* message is sent and nobody is promoted; a disconnect releases the lock only
\* when the socket that went away held it
C27_NonHolderDisconnectOnlyRemoves ==
  [][(lastEvent'.op = "close") =>
       /\ lastEvent'.released => lastEvent'.id = activeControllerId
       /\ (lastEvent'.id # activeControllerId) =>
            /\ lastEvent'.id \notin RegisteredIds(socketInfoByWs')
            /\ Len(socketInfoByWs') = Len(socketInfoByWs) - 1
            /\ \A j \in 1..Len(socketInfoByWs) :
                 socketInfoByWs[j].id # lastEvent'.id
                   => \E k \in 1..Len(socketInfoByWs') : socketInfoByWs'[k] = socketInfoByWs[j]
            /\ activeControllerId' = activeControllerId
            /\ currentState' = currentState
            /\ socketIdCounter' = socketIdCounter
            /\ sent' = <<>>]_vars

\* a waiting controller disconnected while another socket held the lock with a
\* liveness timestamp in the past; the holder and its timestamp stayed
C27_Witness ==
  /\ lastEvent.op = "close"
  /\ lastEvent.prevActive \notin {NULL, lastEvent.id}
  /\ activeControllerId = lastEvent.prevActive
  /\ IsRegistered(activeControllerId)
  /\ InfoOf(activeControllerId).lastHeartbeatAt < now
  /\ ~lastEvent.released
  /\ sent = <<>>

(* C28: the order of the state updates *)

\* the positions in sent of the state updates addressed to this socket
StateUpdatesTo(id) ==
  {k \in 1..Len(sent) : sent[k].type = "state_update" /\ sent[k].to = id}

\* C28: every state update sent carries the position as it is after the
\* handler that sent it, clamped, with the content of that position; a handler
\* that changed the position sends every connected socket exactly one state
\* update and a handler that left it sends none, so that what a socket
\* receives while it stays connected is the sequence of the position's
\* distinct values in order
C28_StateUpdatesFollowPosition ==
  /\ \A k \in 1..Len(sent) :
       sent[k].type = "state_update"
         => /\ sent[k].state = currentState
            /\ clampAppState(sent[k].state) = sent[k].state
            /\ sent[k].content = getCurrentContentPayload(currentState)
  /\ \A i \in 1..Len(socketInfoByWs) :
       socketInfoByWs[i].readyState = "OPEN"
         => Cardinality(StateUpdatesTo(socketInfoByWs[i].id))
              = IF currentState # lastEvent.prevState THEN 1 ELSE 0

\* the position moved on and then back to an earlier value, and both of two
\* connected sockets were sent the state update of the move back
C28_Witness ==
  /\ lastEvent.op = "command"
  /\ lastEvent.arg.type = "prev"
  /\ currentState # lastEvent.prevState
  /\ currentState = InitialState
  /\ Len(socketInfoByWs) = 2
  /\ \A i \in 1..Len(socketInfoByWs) :
       /\ socketInfoByWs[i].readyState = "OPEN"
       /\ Cardinality(StateUpdatesTo(socketInfoByWs[i].id)) = 1

(* C29: the answer to a hello *)

\* C29: a hello is answered with exactly one bootstrap, sent to the sender as
\* the last message of the handler; it carries the position and its content
\* and the lock as they are after the role was set and the claim attempted, so
\* a controller that took the free lock is told isActiveController true; the
\* lock status the claim broadcasts is sent before the bootstrap
C29_HelloAnsweredWithBootstrap ==
  (lastEvent.op = "hello" /\ IsRegistered(lastEvent.id)) =>
    LET info == InfoOf(lastEvent.id)
        answer == sent[Len(sent)]
    IN /\ Len(sent) >= 1
       /\ answer.type = "bootstrap"
       /\ answer.to = lastEvent.id
       /\ \A k \in 1..(Len(sent) - 1) : sent[k].type # "bootstrap"
       /\ answer.state = currentState
       /\ answer.content = getCurrentContentPayload(currentState)
       /\ answer.connection.controllerConnected = (activeControllerId # NULL)
       /\ answer.connection.qrCodeDataUrl = qrCodeDataUrl
       /\ answer.connection.isActiveController
            = (info.role = "control" /\ activeControllerId = info.id)
       /\ answer.connection.lockedByAnother
            = (info.role = "control" /\ activeControllerId \notin {NULL, info.id})
       /\ (info.role = "control" /\ lastEvent.prevActive = NULL)
            => answer.connection.isActiveController
       /\ info.role = "control"
            => \E k \in 1..(Len(sent) - 1) :
                 /\ sent[k].type = "control_lock"
                 /\ sent[k].to = lastEvent.id
                 /\ sent[k].isActiveController = answer.connection.isActiveController

\* a controller declared its role while a display was connected and the lock
\* was free: the display and the controller were told of the claim, and the
\* bootstrap that followed says the sender is the active controller
C29_Witness ==
  /\ lastEvent.op = "hello"
  /\ lastEvent.prevActive = NULL
  /\ activeControllerId = lastEvent.id
  /\ Len(sent) = 3
  /\ sent[1].type = "controller_status"
  /\ sent[2].type = "control_lock"
  /\ sent[3].type = "bootstrap"
  /\ sent[3].connection.isActiveController

(* C30: request_state *)

\* C30: a request_state, whatever the sender's role and whoever holds the
\* lock, is answered with one bootstrap to the sender and no other message,
\* and changes nothing: the registry (roles, liveness timestamps), the lock,
\* the position and the id counter stay
C30_RequestStateOnlyAnswers ==
  [][(lastEvent'.op = "request_state") =>
       /\ socketInfoByWs' = socketInfoByWs
       /\ activeControllerId' = activeControllerId
       /\ currentState' = currentState
       /\ socketIdCounter' = socketIdCounter
       /\ Len(sent') = 1
       /\ sent'[1].type = "bootstrap"
       /\ sent'[1].to = lastEvent'.id
       /\ sent'[1].state = currentState
       /\ sent'[1].connection.controllerConnected = (activeControllerId # NULL)]_vars

\* a socket that has not declared a role asked for the state while another
\* socket held the lock, both with liveness timestamps in the past, and was
\* answered
C30_Witness ==
  /\ lastEvent.op = "request_state"
  /\ IsRegistered(lastEvent.id)
  /\ InfoOf(lastEvent.id).role = "unknown"
  /\ InfoOf(lastEvent.id).lastHeartbeatAt < now
  /\ activeControllerId \notin {NULL, lastEvent.id}
  /\ IsRegistered(activeControllerId)
  /\ InfoOf(activeControllerId).lastHeartbeatAt < now
  /\ Len(sent) = 1
  /\ sent[1].type = "bootstrap"

(* C31: a malformed message *)

\* C31: a message that cannot be parsed, whoever sent it, is answered with one
\* error message to its sender and changes nothing: the sender stays
\* registered, and the registry (roles, liveness timestamps), the lock, the
\* position and the id counter stay
C31_MalformedAnsweredWithError ==
  [][(lastEvent'.op = "invalid_json") =>
       /\ socketInfoByWs' = socketInfoByWs
       /\ lastEvent'.id \in RegisteredIds(socketInfoByWs')
       /\ activeControllerId' = activeControllerId
       /\ currentState' = currentState
       /\ socketIdCounter' = socketIdCounter
       /\ Len(sent') = 1
       /\ sent'[1].type = "error"
       /\ sent'[1].to = lastEvent'.id]_vars

\* the holder, its liveness timestamp in the past, sent a malformed message,
\* was answered with the error and still holds the lock
C31_Witness ==
  /\ lastEvent.op = "invalid_json"
  /\ lastEvent.id = lastEvent.prevActive
  /\ activeControllerId = lastEvent.id
  /\ IsRegistered(lastEvent.id)
  /\ InfoOf(lastEvent.id).lastHeartbeatAt < now
  /\ Len(sent) = 1
  /\ sent[1].type = "error"

(* C32: a well-formed message of no recognized type *)

\* C32: a message that parses and whose type is none of the recognized ones
\* (the JSON text null among them) is ignored: nothing is sent, and the
\* registry (roles, liveness timestamps, the holder's too), the lock, the
\* position and the id counter stay
C32_UnknownTypeIgnored ==
  [][(lastEvent'.op \in {"unknown_type", "uncaught_exception"}) =>
       /\ socketInfoByWs' = socketInfoByWs
       /\ activeControllerId' = activeControllerId
       /\ currentState' = currentState
       /\ socketIdCounter' = socketIdCounter
       /\ sent' = <<>>]_vars

(* C33: the bootstrap over HTTP *)

\* the last step answered GET /api/bootstrap
ApiBootstrapAnswered == lastEvent.op = "api_bootstrap" /\ Len(sent) = 1

\* the registry positions of the sockets of the role the query named
SocketsOfRequestedRole ==
  {i \in 1..Len(socketInfoByWs) : socketInfoByWs[i].role = lastEvent.arg.role}

\* the bootstrap message this socket would be sent now
RealTimeBootstrap(i) ==
  getBootstrapPayload(socketInfoByWs[i], activeControllerId, currentState)

\* C33 as stated: the response to GET /api/bootstrap?role=r has the position,
\* the content and the lock status (controllerConnected, isActiveController,
\* lockedByAnother) of the bootstrap message any socket of role r would be
\* sent at that moment
C33_HttpBootstrapEquivalent ==
  ApiBootstrapAnswered =>
    \A i \in SocketsOfRequestedRole :
      /\ sent[1].state = RealTimeBootstrap(i).state
      /\ sent[1].content = RealTimeBootstrap(i).content
      /\ sent[1].connection = RealTimeBootstrap(i).connection

\* C33: the response to GET /api/bootstrap?role=r has the position, the
\* content and controllerConnected of the bootstrap message any socket of
\* role r would be sent at that moment, and the isActiveController and
\* lockedByAnother of the bootstrap message of any such socket that does not
\* hold the lock
C33_HttpBootstrapEquivalentForNonHolder ==
  ApiBootstrapAnswered =>
    \A i \in SocketsOfRequestedRole :
      /\ sent[1].state = RealTimeBootstrap(i).state
      /\ sent[1].content = RealTimeBootstrap(i).content
      /\ sent[1].connection.controllerConnected
           = RealTimeBootstrap(i).connection.controllerConnected
      /\ socketInfoByWs[i].id # activeControllerId
           => sent[1].connection = RealTimeBootstrap(i).connection

\* the bootstrap was asked for role control while one controller held the lock
\* and another waited: the response says lockedByAnother, as the waiting
\* controller's bootstrap message would
C33_Witness ==
  /\ ApiBootstrapAnswered
  /\ lastEvent.arg.role = "control"
  /\ sent[1].connection.lockedByAnother
  /\ \E i \in SocketsOfRequestedRole : socketInfoByWs[i].id # activeControllerId
  /\ \E i \in SocketsOfRequestedRole : socketInfoByWs[i].id = activeControllerId

(* C34: a holder that sends its heartbeats *)

\* the socket of the control page is registered with an open connection and
\* role control, and the page has not seen it close
PageConnected ==
  /\ control.pc = "open"
  /\ IsRegistered(control.socketId)
  /\ InfoOf(control.socketId).readyState = "OPEN"
  /\ InfoOf(control.socketId).role = "control"

\* C34: with HEARTBEAT_INTERVAL_MS at most CONTROLLER_TIMEOUT_MS, the socket
\* of a control page, which sends a heartbeat every HEARTBEAT_INTERVAL_MS, is
\* never released by the monitor while it is connected with role control:
\* the time since its liveness timestamp never exceeds the timeout while it
\* holds the lock, so no tick releases it
C34_HeartbeatingHolderKept ==
  /\ HEARTBEAT_INTERVAL_MS <= CONTROLLER_TIMEOUT_MS
  /\ PageConnected =>
       /\ ~(lastEvent.op = "monitor" /\ lastEvent.released
              /\ lastEvent.prevActive = control.socketId)
       /\ activeControllerId = control.socketId
            => now - InfoOf(control.socketId).lastHeartbeatAt <= CONTROLLER_TIMEOUT_MS

\* the monitor ran while the page's socket held the lock with its last
\* heartbeat a full timeout ago, and did not release it
C34_Witness ==
  /\ PageConnected
  /\ lastEvent.op = "monitor"
  /\ ~lastEvent.released
  /\ lastEvent.prevActive = control.socketId
  /\ activeControllerId = control.socketId
  /\ now - InfoOf(control.socketId).lastHeartbeatAt = CONTROLLER_TIMEOUT_MS

(* C35: the derived lock flags *)

\* the flags the server derives for the socket at this registry position
FlagsOf(i) == getControllerFlags(socketInfoByWs[i], activeControllerId)

\* C35: in every state at most one registered socket has isActiveController,
\* no socket has both isActiveController and lockedByAnother, a socket whose
\* role is not control has neither, and a control-role socket has neither
\* exactly when the lock is free
C35_LockFlagsConsistent ==
  /\ Cardinality({i \in 1..Len(socketInfoByWs) : FlagsOf(i).isActiveController}) <= 1
  /\ \A i \in 1..Len(socketInfoByWs) :
       /\ ~(FlagsOf(i).isActiveController /\ FlagsOf(i).lockedByAnother)
       /\ socketInfoByWs[i].role # "control"
            => (~FlagsOf(i).isActiveController /\ ~FlagsOf(i).lockedByAnother)
       /\ socketInfoByWs[i].role = "control"
            => ((~FlagsOf(i).isActiveController /\ ~FlagsOf(i).lockedByAnother)
                  <=> ~isControllerConnected(activeControllerId))

\* a holder, a waiting controller and a display are registered: one socket is
\* the active controller, one is locked out and one has neither flag
C35_Witness ==
  /\ \E i \in 1..Len(socketInfoByWs) : FlagsOf(i).isActiveController
  /\ \E i \in 1..Len(socketInfoByWs) : FlagsOf(i).lockedByAnother
  /\ \E i \in 1..Len(socketInfoByWs) :
       socketInfoByWs[i].role = "display" /\ ~FlagsOf(i).lockedByAnother

(* C36: what an accepted command leaves alone *)

\* C36: an accepted setQuran (set_quran, set_state) leaves the mode and the
\* dua position as they were, an accepted setDua (set_dua) leaves the mode and
\* the quran position, and an accepted next, prev or step leaves the mode and
\* the position of the domain that is not active
C36_CommandChangesOwnComponent ==
  CommandAccepted =>
    /\ lastEvent.arg.type \in {"setQuran", "set_quran", "set_state"}
         => /\ currentState.mode = lastEvent.prevState.mode
            /\ currentState.dua = lastEvent.prevState.dua
    /\ lastEvent.arg.type \in {"setDua", "set_dua"}
         => /\ currentState.mode = lastEvent.prevState.mode
            /\ currentState.quran = lastEvent.prevState.quran
    /\ lastEvent.arg.type \in {"next", "prev", "step"}
         => /\ currentState.mode = lastEvent.prevState.mode
            /\ currentState.mode = "dua" => currentState.quran = lastEvent.prevState.quran
            /\ currentState.mode # "dua" => currentState.dua = lastEvent.prevState.dua

\* a setQuran was accepted while the dua domain was active and moved the
\* quran position of a state whose dua position is not the first one; the
\* dua domain is still active
C36_Witness ==
  /\ CommandAccepted
  /\ lastEvent.arg.type = "setQuran"
  /\ lastEvent.prevState.mode = "dua"
  /\ currentState.mode = "dua"
  /\ currentState.quran # lastEvent.prevState.quran
  /\ currentState.dua.lineIndex > 1

(* C37: the defaults of step and of setMode *)

\* C37: an accepted step whose direction is not prev leaves the position and
\* the messages that an accepted next would have left from the same position,
\* and an accepted setMode whose mode is not dua leaves those of a setMode to
\* quran: the quran domain is active after it
C37_DirectionAndModeDefault ==
  CommandAccepted =>
    /\ (lastEvent.arg.type = "step" /\ lastEvent.arg.direction # "prev")
         => LET asNext == stepActive(lastEvent.prevState, "next", socketInfoByWs)
            IN /\ currentState = asNext.state
               /\ sent = asNext.out
    /\ (lastEvent.arg.type \in {"setMode", "set_mode"} /\ lastEvent.arg.mode # "dua")
         => LET asQuran == setMode(lastEvent.prevState, "quran", socketInfoByWs)
            IN /\ currentState = asQuran.state
               /\ sent = asQuran.out
               /\ currentState.mode = "quran"

\* a step whose direction was previous was accepted and moved the position
\* as a next does, with a state update sent
C37_Witness ==
  /\ CommandAccepted
  /\ lastEvent.arg.type = "step"
  /\ lastEvent.arg.direction = "previous"
  /\ currentState # lastEvent.prevState
  /\ currentState = stepActive(lastEvent.prevState, "next", socketInfoByWs).state
  /\ sent # <<>>

(* C38: the control page sends commands only while it believes it holds the lock *)

\* the step is a mutating command reaching the server
CommandSent ==
  /\ lastEvent'.op = "command"
  /\ lastEvent' # lastEvent \/ socketInfoByWs' # socketInfoByWs

\* C38: the control page's lockState says isActiveController only while its
\* socket is open and a bootstrap or control_lock that came over this very
\* socket said so (a close resets it, and a reconnected page waits for the
\* server's word), and every mutating command the page sends leaves it in
\* such a state, over that socket
C38_CommandsOnlyWhileToldActive ==
  /\ [](control.isActiveController =>
          /\ control.pc = "open"
          /\ control.socketId # NULL
          /\ control.toldBy = control.socketId)
  /\ [][CommandSent =>
          /\ control.isActiveController
          /\ control.pc = "open"
          /\ control.toldBy = control.socketId
          /\ lastEvent'.id = control.socketId]_vars

\* the page sent a command over a socket that is not the first of the server,
\* was told over it that it is the active controller, and the server took
\* the command
C38_Witness ==
  /\ CommandAccepted
  /\ lastEvent.id = control.socketId
  /\ control.socketId > 1
  /\ control.isActiveController
  /\ control.toldBy = control.socketId
  /\ control.reconnectTimers = 0

(* C39: the timers of the control page *)

\* the timers are those the page's connection state calls for: never two
\* reconnect timeouts nor two heartbeat intervals; after a close one reconnect
\* timeout and no heartbeat interval; while connecting neither; with an open
\* socket one heartbeat interval and no reconnect timeout; and a heartbeat of
\* the page's socket reaches a server that has handled its hello(control)
ControlTimersInStep ==
  /\ control.reconnectTimers <= 1
  /\ control.heartbeatTimers <= 1
  /\ control.reconnectTimer <=> control.reconnectTimers = 1
  /\ control.heartbeatTimer <=> control.heartbeatTimers = 1
  /\ control.pc = "closed" => control.reconnectTimers = 1 /\ control.heartbeatTimers = 0
  /\ control.pc \in {"init", "connecting"} =>
       control.reconnectTimers = 0 /\ control.heartbeatTimers = 0
  /\ control.pc = "open" => control.reconnectTimers = 0 /\ control.heartbeatTimers = 1
  /\ (lastEvent.op = "heartbeat" /\ lastEvent.id = control.socketId) =>
       /\ IsRegistered(lastEvent.id)
       /\ InfoOf(lastEvent.id).role = "control"

\* C39: once the control page's socket has closed, at most one reconnect
\* timeout is pending and no heartbeat interval runs, and a connection attempt
\* follows; with an open socket exactly one heartbeat interval runs, and the
\* server has handled the socket's hello(control) before any heartbeat of it
C39_ReconnectAndHeartbeatTimers ==
  /\ []ControlTimersInStep
  /\ (control.pc = "closed") ~> (control.pc = "connecting")

\* the page's socket was open, the server saw it close while it held the
\* lock, and the page's close listener has run: the heartbeat interval is
\* stopped and one reconnect timeout is pending
C39_Witness ==
  /\ control.pc = "closed"
  /\ lastEvent.op = "close"
  /\ lastEvent.prevActive = lastEvent.id
  /\ control.heartbeatAt > 0
  /\ control.reconnectTimers = 1
  /\ control.heartbeatTimers = 0
  /\ ~control.heartbeatTimer

(* C40: the two-domain server refines the scripture-only server *)

\* the scripture-only server's state in a state of the two-domain server: the
\* registry, the counter, the lock, and the quran position
LegacyState ==
  [socketInfoByWs |-> socketInfoByWs, socketIdCounter |-> socketIdCounter,
   activeControllerId |-> activeControllerId, currentState |-> currentState.quran]

\* the state updates among the messages of the two-domain server: to whom,
\* and with which quran position
StateUpdatesSent(out) ==
  LET isUpdate(m) == m.type = "state_update"
      updates == SelectSeq(out, isUpdate)
  IN [k \in 1..Len(updates) |-> [to |-> updates[k].to, state |-> updates[k].state.quran]]

\* the state updates among the messages of the scripture-only server
LegacyStateUpdatesSent(out) ==
  LET isUpdate(m) == m.type = "state_update"
      updates == SelectSeq(out, isUpdate)
  IN [k \in 1..Len(updates) |-> [to |-> updates[k].to, state |-> updates[k].state]]

\* the step leaves the two-domain server where the handler of the
\* scripture-only server, with result r, leaves that server, and both
\* broadcast the same state updates
LegacySimulates(r) ==
  /\ LegacyState' = r.state
  /\ StateUpdatesSent(sent') = LegacyStateUpdatesSent(r.out)

\* C40: the servers start with the same registry, lock and quran position,
\* and every connect, hello, heartbeat, set_state, disconnect and monitor
\* tick of the two-domain server leaves its registry, counter, lock holder
\* and quran position where the scripture-only server's handler of the same
\* event leaves them from the same state, with a state update sent to the
\* same sockets by both or by neither
C40_RefinesScriptureOnlyServer ==
  /\ LegacyState = legacyInit
  /\ [][/\ (lastEvent'.op = "connection" /\ Connect(MaxLegacySockets))
             => LegacySimulates(legacyConnection(LegacyState, now))
        /\ (lastEvent'.op = "monitor" /\ MonitorTick)
             => LegacySimulates(legacyMonitor(LegacyState, now))
        /\ \A i \in 1..Len(socketInfoByWs) :
             /\ \A role \in DeclaredRoles :
                  (lastEvent'.op = "hello" /\ lastEvent'.id = socketInfoByWs[i].id
                    /\ Hello(i, role))
                    => LegacySimulates(legacyHello(LegacyState, i, role, now))
             /\ (lastEvent'.op = "heartbeat" /\ lastEvent'.id = socketInfoByWs[i].id
                    /\ Heartbeat(i))
                  => LegacySimulates(legacyHeartbeat(LegacyState, i, now))
             /\ (lastEvent'.op = "command" /\ lastEvent'.id = socketInfoByWs[i].id
                    /\ Command(i, lastEvent'.arg))
                  => LegacySimulates(legacySetStateMessage(LegacyState, i, lastEvent'.arg, now))
             /\ (lastEvent'.op = "close" /\ lastEvent'.id = socketInfoByWs[i].id
                    /\ Close(i))
                  => LegacySimulates(legacyClose(LegacyState, i, now))]_vars

\* an accepted set_state moved the quran position and a state update went out
C40_Witness ==
  /\ CommandAccepted
  /\ lastEvent.arg.type = "set_state"
  /\ currentState.quran # lastEvent.prevState.quran
  /\ Len(StateUpdatesSent(sent)) >= 2
  /\ activeControllerId = lastEvent.id

====
